---- MODULE Spec2Model ----
(***************************************************************************)
(* Multi-strategy fallback resolution of the social-media scraper.         *)
(*                                                                         *)
(* One behaviour of the model is one call of one entry point on one batch  *)
(* of sources.  `platform` names the entry point:                          *)
(*   "reddit", "twitter", "instagram", "facebook"                          *)
(*        UnifiedScraper.scrape_* of api/scrape.py                         *)
(*   "index"   UnifiedScraper.scrape_reddit of api/index.py (and app.py),  *)
(*             which goes through AdvancedScraper of social_scraper.py     *)
(*   "fbpage"  FacebookScraper.scrape_page of api/facebook_scraper.py      *)
(* A behaviour of SpecFlatten, SpecFilter or SpecNormalize is one call of   *)
(* a function (_parse_comments_recursive, apply_filters, the loops that    *)
(* make records of a listing payload) on arguments `args`, returning       *)
(* `ret`; SpecLimit is a Reddit request that carries options.limit.        *)
(* The remote services are the environment: every request is answered by   *)
(* an outcome drawn from a small set (network error, non-200, a 200 whose  *)
(* body does not parse, a 200 with a list of items).  Sources are strings, *)
(* as the inbound interface declares them.                                 *)
(***************************************************************************)
EXTENDS Integers, Sequences, FiniteSets, TLC

VARIABLES
    platform,   \* the entry point called
    sources,    \* the `sources` argument: a list of source descriptors
    avail,      \* which helper scrapers were importable (api/scrape.py 10-28)
    cookies,    \* scrape_facebook: whether a cookie string was passed
    options,    \* the `options` argument
    idx,        \* position of the `for source in sources` loop (1-based)
    pc,         \* position inside the loop body
    success,    \* the local `success` / `tweets_found`
    results,    \* the local `results` list
    log,        \* history: the strategy attempts made, in order
    response,   \* scrape_page: the local `response`
    pageResult, \* scrape_page: the dict it returns
    args,       \* the arguments of a call of a function of social_scraper.py
    ret         \* what that call returned

vars == <<platform, sources, avail, cookies, options, idx, pc, success,
          results, log, response, pageResult, args, ret>>

(***************************************************************************)
(* Bounds of the model.                                                    *)
(***************************************************************************)
MaxSources == 2     \* longest batch
MaxPosts == 2       \* most items in one response

(***************************************************************************)
(* Program constants.                                                      *)
(***************************************************************************)
PostLimit == 10     \* posts[:10], entries[:10], posts[:10]

Min(a, b) == IF a < b THEN a ELSE b

SeqsUpTo(S, n) == UNION {[1..k -> S] : k \in 0..n}

\* s[:n] of Python, for n >= 0
Take(s, n) == SubSeq(s, 1, Min(Len(s), n))

NoMethods == <<>>

\* A record of the returned list.  `src` is the position of the source the
\* record was appended for; `kind` tells a data record from an error record
\* (a dict with an 'error' key); `tag` is the provenance tag (strategy_used /
\* source) or the error message; `methods` is the list under
\* 'available_methods' (empty when the dict has no such key).
Rec(src, kind, tag, methods) ==
    [src |-> src, kind |-> kind, tag |-> tag, methods |-> methods]

Attempt(src, strat, ok) == [src |-> src, strat |-> strat, ok |-> ok]

(***************************************************************************)
(* Responses to a listing request.                                         *)
(*   neterr   requests.get raised (timeout, connection error)              *)
(*   non200   a response whose status_code is not 200                      *)
(*   badbody  200, but response.json() / ET.fromstring raised              *)
(*   ok       200 and a parsed list of items; an item is "good" when its   *)
(*            fields convert, "bad" when converting it raises (selftext or *)
(*            created_utc of the wrong type, an <author><name/> without    *)
(*            text, an item that is not a dict)                            *)
(***************************************************************************)
ItemQuality == {"good", "bad"}

ListingResponses ==
    {[kind |-> k, items |-> <<>>] : k \in {"neterr", "non200", "badbody"}}
    \cup {[kind |-> "ok", items |-> s] : s \in SeqsUpTo(ItemQuality, MaxPosts)}

\* Index of the first item whose conversion raises, Len + 1 if none does.
FirstBad(items) ==
    IF \E i \in 1..Len(items) : items[i] = "bad"
    THEN CHOOSE i \in 1..Len(items) :
            /\ items[i] = "bad"
            /\ \A j \in 1..(i - 1) : items[j] = "good"
    ELSE Len(items) + 1

\* `for post in posts[:10]: results.append({...})`: a record per item until an
\* item raises; the records appended before the exception stay in `results`.
ConvertLoop(items, src, tag) ==
    LET cut == Take(items, PostLimit)
        stop == FirstBad(cut)
    IN [recs |-> [i \in 1..(stop - 1) |-> Rec(src, "post", tag, NoMethods)],
        raised |-> stop <= Len(cut)]

\* Mutant of NextSource: a source whose strategies all failed is tried again.
NextSourceRetry(top) ==
    /\ idx' = IF success \/ pc # "finish" THEN idx + 1 ELSE idx
    /\ pc' = IF (success \/ pc # "finish") /\ idx + 1 > Len(sources)
             THEN "done" ELSE top

\* `continue` / the end of the loop body
NextSource(top) ==
    /\ idx' = idx + 1
    /\ pc' = IF idx + 1 > Len(sources) THEN "done" ELSE top

(***************************************************************************)
(* api/scrape.py, UnifiedScraper.scrape_reddit                             *)
(***************************************************************************)
RedditTags == <<"arctic_shift_api", "rss_feed", "json_api">>
RedditMethods == <<"Arctic Shift API", "RSS Feed", "JSON API">>
RedditStrategies == <<"arctic", "rss", "json">>

\* One strategy of scrape_reddit: the request, the status check, the parse,
\* the `if posts:` check and the conversion loop, inside its try/except.
\* `ok` is what the strategy leaves in `success`.  The per-post comment
\* request of strategy 1 has a try/except of its own and changes neither the
\* number of records nor `success`.
RedditStrategy(resp, src, tag) ==
    IF resp.kind # "ok" \/ resp.items = <<>>
    THEN [recs |-> <<>>, ok |-> FALSE]
    ELSE LET loop == ConvertLoop(resp.items, src, tag)
         IN [recs |-> loop.recs, ok |-> ~loop.raised]

\* Mutant of RedditShouldTry: the next strategy runs whatever `success` is.
RedditShouldTryAlways(found) == TRUE

\* `if not success:` before strategies 2 and 3
RedditShouldTry(found) == ~found

\* Mutant of RedditExhausted: the record leaves out the last strategy.
RedditExhaustedShort(src) ==
    Rec(src, "error", "All Reddit access methods failed",
        <<"Arctic Shift API", "RSS Feed">>)

RedditExhausted(src) ==
    Rec(src, "error", "All Reddit access methods failed", RedditMethods)

RedditRun(k, next) ==
    /\ IF k = 1 \/ RedditShouldTry(success)
       THEN \E resp \in ListingResponses :
              LET out == RedditStrategy(resp, idx, RedditTags[k])
              IN /\ results' = results \o out.recs
                 /\ success' = out.ok
                 /\ log' = Append(log, Attempt(idx, RedditStrategies[k], out.ok))
       ELSE UNCHANGED <<args, ret, results, success, log>>
    /\ pc' = next
    /\ UNCHANGED <<args, ret, platform, sources, avail, cookies, options, idx,
                   response, pageResult>>

\* Strategy 1: Arctic Shift API
RedditArctic ==
    /\ platform = "reddit"
    /\ pc = "arctic"
    /\ RedditRun(1, "rss")

\* Strategy 2: RSS feed
RedditRss ==
    /\ platform = "reddit"
    /\ pc = "rss"
    /\ RedditRun(2, "json")

\* Strategy 3: old.reddit JSON
RedditJson ==
    /\ platform = "reddit"
    /\ pc = "json"
    /\ RedditRun(3, "finish")

\* `if not success: results.append({... 'error': ...})`, then the next source
RedditFinish ==
    /\ platform = "reddit"
    /\ pc = "finish"
    /\ results' = IF ~success THEN Append(results, RedditExhausted(idx))
                  ELSE results
    /\ success' = FALSE
    /\ NextSource("arctic")
    /\ UNCHANGED <<args, ret, platform, sources, avail, cookies, options, log,
                   response, pageResult>>

(***************************************************************************)
(* api/scrape.py, UnifiedScraper.scrape_twitter and the helper scrapers    *)
(* it calls.  A Twitter source is described by the tests the code applies  *)
(* to the string: source.startswith('search:'), '/status/' in source, and  *)
(* whether re.search(r'/status/(\d+)', source) matches.                    *)
(***************************************************************************)
TwitterSourceForms ==
    {f \in [search : BOOLEAN, status : BOOLEAN, tweetId : BOOLEAN] :
        f.tweetId => f.status}

TwitterSources == UNION {[1..n -> TwitterSourceForms] : n \in 1..MaxSources}

\* The routing at the top of the loop body: 'search:' is tested first.
Classify(source) ==
    IF source.search THEN "search"
    ELSE IF source.status THEN "status"
    ELSE "user"

EnhancedLimit == 50
XcancelLimit == 30
BasicLimit == 20
SearchLimit == 20

Tweets(n) == [i \in 1..n |-> "tweet"]
ErrorElement == <<"error">>

GoodItems(items) == SelectSeq(items, LAMBDA q : q = "good")

\* EnhancedTwitterScraper.scrape_user_timeline: on a 200, `matches[:limit]`
\* subscripts the iterator re.finditer returned, which raises TypeError; the
\* handler turns every exception into a one-element error list.
EnhancedTimeline(resp, limit) ==
    CASE resp.kind = "neterr" -> ErrorElement
      [] resp.kind = "non200" -> <<>>
      [] OTHER -> ErrorElement

\* XCancelTwitterScraper.scrape_user_timeline: a timeline item that fails to
\* parse (or has no tweet link) is skipped; every non-200 and every exception
\* gives a one-element error list.
XcancelTimeline(resp, limit) ==
    CASE resp.kind \in {"neterr", "non200"} -> ErrorElement
      [] resp.kind = "badbody" -> <<>>
      [] OTHER -> Tweets(Len(GoodItems(Take(resp.items, limit))))

\* TwitterSyndicationScraper.scrape_user_timeline: [] unless the page is a 200
\* whose __NEXT_DATA__ parses; an entry that raises empties the whole result.
BasicTimeline(resp, limit) ==
    IF resp.kind = "ok" /\ FirstBad(resp.items) > Len(resp.items)
    THEN Tweets(Min(Len(resp.items), limit))
    ELSE <<>>

\* EnhancedTwitterScraper.search_tweets: the tweets with a non-empty text,
\* or else the one-element 'info' fallback.
SearchTweets(resp, limit) ==
    LET found == IF resp.kind = "ok"
                 THEN Tweets(Len(GoodItems(Take(resp.items, limit))))
                 ELSE <<>>
    IN IF found # <<>> THEN found ELSE <<"info">>

\* EnhancedTwitterScraper.get_tweet_with_replies: "none" is Python's None.
TweetWithReplies(source, resp) ==
    CASE ~source.tweetId -> "invalid"
      [] resp.kind \in {"neterr", "badbody"} -> "error"
      [] resp.kind = "non200" -> "none"
      [] OTHER -> "tweet"

\* Mutant of TimelineSucceeded: the error elements are not looked at.
TimelineSucceededNonEmpty(tweets) == tweets # <<>>

\* `if tweets and not any('error' in tweet for tweet in tweets):`
TimelineSucceeded(tweets) ==
    /\ tweets # <<>>
    /\ \A i \in 1..Len(tweets) : tweets[i] # "error"

\* Mutant of TwitterShouldTry: `tweets_found` is not consulted.
TwitterShouldTryAvailable(found, available) == available

\* `if not tweets_found and self.<scraper>:` before strategies 2 and 3
TwitterShouldTry(found, available) == ~found /\ available

TwitterExhausted(src) ==
    Rec(src, "error", "Could not fetch tweets from any available source",
        NoMethods)

\* source.startswith('search:')
TwitterSearch ==
    /\ platform = "twitter"
    /\ pc = "top"
    /\ Classify(sources[idx]) = "search"
    /\ IF avail.enhanced
       THEN \E resp \in ListingResponses :
              LET found == SearchTweets(resp, SearchLimit)
              IN results' = results \o
                    [i \in 1..Len(found) |->
                        Rec(idx, "search",
                            IF found[i] = "tweet" THEN "mobile_search"
                            ELSE "search", NoMethods)]
       ELSE UNCHANGED results
    /\ NextSource("top")
    /\ UNCHANGED <<args, ret, platform, sources, avail, cookies, options, success, log,
                   response, pageResult>>

\* '/status/' in source
TwitterStatus ==
    /\ platform = "twitter"
    /\ pc = "top"
    /\ Classify(sources[idx]) = "status"
    /\ IF avail.enhanced
       THEN \E resp \in ListingResponses :
              LET data == TweetWithReplies(sources[idx], resp)
              IN results' =
                    CASE data = "none" -> results
                      [] data = "invalid" ->
                            Append(results, Rec(idx, "error",
                                   "Invalid tweet URL", NoMethods))
                      [] data = "error" ->
                            Append(results, Rec(idx, "error",
                                   "Failed to fetch tweet", NoMethods))
                      [] OTHER ->
                            Append(results, Rec(idx, "tweet", "oembed_api",
                                   NoMethods))
       ELSE UNCHANGED results
    /\ NextSource("top")
    /\ UNCHANGED <<args, ret, platform, sources, avail, cookies, options, success, log,
                   response, pageResult>>

\* One timeline strategy with the error check of strategies 1 and 2: records
\* are appended only when the whole list passed the check.
TwitterChecked(strat, tag, tweets) ==
    LET ok == TimelineSucceeded(tweets)
    IN /\ results' = IF ok
                     THEN results \o [i \in 1..Len(tweets) |->
                                        Rec(idx, "tweet", tag, NoMethods)]
                     ELSE results
       /\ success' = ok
       /\ log' = Append(log, Attempt(idx, strat, ok))

\* Strategy 1: enhanced syndication (username sources)
TwitterEnhanced ==
    /\ platform = "twitter"
    /\ pc = "top"
    /\ Classify(sources[idx]) = "user"
    /\ IF avail.enhanced
       THEN \E resp \in ListingResponses :
              TwitterChecked("enhanced", "syndication_enhanced",
                             EnhancedTimeline(resp, EnhancedLimit))
       ELSE /\ success' = FALSE
            /\ UNCHANGED <<args, ret, results, log>>
    /\ pc' = "xcancel"
    /\ UNCHANGED <<args, ret, platform, sources, avail, cookies, options, idx,
                   response, pageResult>>

\* Strategy 2: xcancel
TwitterXcancel ==
    /\ platform = "twitter"
    /\ pc = "xcancel"
    /\ IF TwitterShouldTry(success, avail.xcancel)
       THEN \E resp \in ListingResponses :
              TwitterChecked("xcancel", "xcancel_complete_timeline",
                             XcancelTimeline(resp, XcancelLimit))
       ELSE UNCHANGED <<args, ret, results, success, log>>
    /\ pc' = "basic"
    /\ UNCHANGED <<args, ret, platform, sources, avail, cookies, options, idx,
                   response, pageResult>>

\* Strategy 3: basic syndication; every returned element is appended and the
\* strategy succeeds when the list is not empty.
TwitterBasic ==
    /\ platform = "twitter"
    /\ pc = "basic"
    /\ IF TwitterShouldTry(success, avail.basic)
       THEN \E resp \in ListingResponses :
              LET tweets == BasicTimeline(resp, BasicLimit)
              IN /\ results' = results \o
                        [i \in 1..Len(tweets) |->
                            Rec(idx, "tweet", "syndication_api_popular",
                                NoMethods)]
                 /\ success' = (tweets # <<>>)
                 /\ log' = Append(log, Attempt(idx, "basic", tweets # <<>>))
       ELSE UNCHANGED <<args, ret, results, success, log>>
    /\ pc' = "finish"
    /\ UNCHANGED <<args, ret, platform, sources, avail, cookies, options, idx,
                   response, pageResult>>

\* `if not tweets_found: results.append({... 'error': ...})`
TwitterFinish ==
    /\ platform = "twitter"
    /\ pc = "finish"
    /\ results' = IF ~success THEN Append(results, TwitterExhausted(idx))
                  ELSE results
    /\ success' = FALSE
    /\ NextSource("top")
    /\ UNCHANGED <<args, ret, platform, sources, avail, cookies, options, log,
                   response, pageResult>>

(***************************************************************************)
(* api/scrape.py, UnifiedScraper.scrape_instagram                          *)
(***************************************************************************)
InstagramPostLimit == 8

\* "nouser": a 200 whose JSON has no data.user
InstagramResponses ==
    ListingResponses \cup {[kind |-> "nouser", items |-> <<>>]}

\* The body of the try block for one source: the record it appends, or
\* `raised` when requests.get, response.json() or the conversion of an edge
\* raises before any append.
InstagramBody(resp, src) ==
    CASE resp.kind \in {"neterr", "badbody"} ->
            [raised |-> TRUE, recs |-> <<>>]
      [] resp.kind = "non200" ->
            [raised |-> FALSE,
             recs |-> <<Rec(src, "error", "Could not access profile",
                            NoMethods)>>]
      [] resp.kind = "nouser" ->
            [raised |-> FALSE,
             recs |-> <<Rec(src, "error", "Profile not found or private",
                            NoMethods)>>]
      [] OTHER ->
            LET edges == Take(resp.items, InstagramPostLimit)
            IN IF FirstBad(edges) <= Len(edges)
               THEN [raised |-> TRUE, recs |-> <<>>]
               ELSE [raised |-> FALSE,
                     recs |-> <<Rec(src, "profile", "instagram", NoMethods)>>]

\* Mutant of InstagramSource: no try/except around the body.
InstagramSourceNoCatch(resp, src) ==
    LET body == InstagramBody(resp, src)
    IN [recs |-> body.recs, aborted |-> body.raised]

\* try: ... except Exception as e: results.append({... 'error': str(e)})
\* `aborted` tells whether an exception left the loop.
InstagramSource(resp, src) ==
    LET body == InstagramBody(resp, src)
    IN IF body.raised
       THEN [recs |-> <<Rec(src, "error", "exception", NoMethods)>>,
             aborted |-> FALSE]
       ELSE [recs |-> body.recs, aborted |-> FALSE]

\* What a per-source step leaves: either the next source, or the exception
\* propagating out of the function (the caller gets no list).
AfterSource(out, top) ==
    IF out.aborted
    THEN /\ results' = <<>>
         /\ pc' = "aborted"
         /\ idx' = idx
    ELSE /\ results' = results \o out.recs
         /\ NextSource(top)

InstagramProfile ==
    /\ platform = "instagram"
    /\ pc = "profile"
    /\ \E resp \in InstagramResponses :
          AfterSource(InstagramSource(resp, idx), "profile")
    /\ UNCHANGED <<args, ret, platform, sources, avail, cookies, options, success, log,
                   response, pageResult>>

(***************************************************************************)
(* api/scrape.py, UnifiedScraper.scrape_facebook                           *)
(***************************************************************************)
NoResponse == [got |-> FALSE, ok200 |-> FALSE, redirected |-> FALSE]

\* A page request: no response (requests raised), or a response with its
\* status (200 or not) and whether its final URL is a login/checkpoint page.
PageResponses ==
    {NoResponse}
    \cup [got : {TRUE}, ok200 : BOOLEAN, redirected : BOOLEAN]

FacebookBody(resp, src, withCookies) ==
    IF ~resp.got THEN [raised |-> TRUE, recs |-> <<>>]
    ELSE [raised |-> FALSE,
          recs |-> <<
            IF resp.ok200 /\ ~resp.redirected
            THEN Rec(src, "page",
                     IF withCookies THEN "cookies" ELSE "no_auth", NoMethods)
            ELSE IF withCookies /\ resp.redirected
            THEN Rec(src, "error", "Authentication failed", NoMethods)
            ELSE IF withCookies
            THEN Rec(src, "error", "Could not access page", NoMethods)
            ELSE Rec(src, "error", "Page requires authentication",
                     NoMethods) >>]

\* Mutant of FacebookSource: the handler swallows the exception.
FacebookSourceSilent(resp, src, withCookies) ==
    LET body == FacebookBody(resp, src, withCookies)
    IN [recs |-> body.recs, aborted |-> FALSE]

FacebookSource(resp, src, withCookies) ==
    LET body == FacebookBody(resp, src, withCookies)
    IN IF body.raised
       THEN [recs |-> <<Rec(src, "error", "exception", NoMethods)>>,
             aborted |-> FALSE]
       ELSE [recs |-> body.recs, aborted |-> FALSE]

FacebookPage ==
    /\ platform = "facebook"
    /\ pc = "page"
    /\ \E resp \in PageResponses :
          AfterSource(FacebookSource(resp, idx, cookies), "page")
    /\ UNCHANGED <<args, ret, platform, sources, avail, cookies, options, success, log,
                   response, pageResult>>

(***************************************************************************)
(* api/index.py and app.py, UnifiedScraper.scrape_reddit, through          *)
(* AdvancedScraper.scrape, scrape_reddit and apply_filters of              *)
(* social_scraper.py                                                       *)
(***************************************************************************)
\* AdvancedScraper.scrape_reddit for a subreddit: the posts formatted before
\* anything raised; a non-200 and every exception give what was collected so
\* far (the handler only prints).
AdvancedScrapeReddit(resp) ==
    IF resp.kind = "ok"
    THEN [i \in 1..(FirstBad(resp.items) - 1) |-> "post"]
    ELSE <<>>

\* The fetch of AdvancedScraper.scrape_reddit failed: an exception inside the
\* scraper (request, JSON, a post that does not format) or a non-200 status.
AdvancedFetchFailed(resp) ==
    resp.kind # "ok" \/ FirstBad(resp.items) <= Len(resp.items)

(***************************************************************************)
(* AdvancedScraper.apply_filters and its helpers.                          *)
(*                                                                         *)
(* A filter dict is a function whose domain is the set of its keys.  An    *)
(* item is a record of the keys the filters read: created_at, engagement   *)
(* (a function from the keys of the dict to numbers, empty when the item   *)
(* has no 'engagement' key), title, content, author and type.  A string is *)
(* a sequence of characters.                                               *)
(***************************************************************************)
\* str.lower() on one character
Lower(c) ==
    CASE c = "A" -> "a"
      [] c = "B" -> "b"
      [] OTHER -> c

\* str.lower()
StrLower(s) == [i \in 1..Len(s) |-> Lower(s[i])]

\* `needle in hay` of two strings
IsSubstring(needle, hay) ==
    \E i \in 0..(Len(hay) - Len(needle)) :
        SubSeq(hay, i + 1, i + Len(needle)) = needle

\* contains_keywords: True for an empty keyword list; else whether some
\* keyword, lower-cased, is in the lower-cased join of title, content, author.
ContainsKeywords(item, keywords) ==
    IF keywords = <<>> THEN TRUE
    ELSE LET searchable ==
                 StrLower(item.title \o <<" ">> \o item.content
                          \o <<" ">> \o item.author)
         IN \E k \in 1..Len(keywords) :
                IsSubstring(StrLower(keywords[k]), searchable)

RECURSIVE SumValues(_)
\* The sum of the values of a dict whose values are all numbers.
SumValues(d) ==
    IF DOMAIN d = {} THEN 0
    ELSE LET k == CHOOSE key \in DOMAIN d : TRUE
         IN d[k] + SumValues([key \in DOMAIN d \ {k} |-> d[key]])

\* get_total_engagement: every numeric value of item['engagement'] is added,
\* whatever its key; 0 for an item without the key.
GetTotalEngagement(item) == SumValues(item.engagement)

\* A datetime: naive or aware, at time t.  NoDate is None.
NoDate == [kind |-> "none", t |-> 0]
DateTime(aware, t) == [kind |-> IF aware THEN "aware" ELSE "naive", t |-> t]

\* parse_date.  The strptime formats give a naive datetime, the ones that
\* end in a literal Z included; None for no input and for a string that no
\* format parses.
ParseDate(date_input) ==
    IF date_input.form \in {"iso", "isoZ"}
    THEN DateTime(FALSE, date_input.t)
    ELSE NoDate

\* datetime.fromisoformat(date_str.replace('Z', '+00:00')): aware when the
\* string has an offset or a Z, naive when it has none, ValueError (NoDate
\* here) when the string is no ISO timestamp.
FromIsoFormat(date_str) ==
    CASE date_str.form = "iso" -> DateTime(FALSE, date_str.t)
      [] date_str.form \in {"isoZ", "offset"} -> DateTime(TRUE, date_str.t)
      [] OTHER -> NoDate

\* `a < b` of two datetimes raises TypeError when one is naive and the other
\* aware.
CompareRaises(a, b) == a.kind # b.kind

\* is_within_date_range: True for no date string, and True whenever the
\* parse or a comparison raises (the bare `except: return True`).
IsWithinDateRange(date_str, date_from, date_to) ==
    IF date_str.form = "missing" THEN TRUE
    ELSE LET date == FromIsoFormat(date_str)
         IN IF date = NoDate THEN TRUE
            ELSE IF date_from # NoDate /\ CompareRaises(date, date_from)
            THEN TRUE
            ELSE IF date_from # NoDate /\ date.t < date_from.t THEN FALSE
            ELSE IF date_to # NoDate /\ CompareRaises(date, date_to)
            THEN TRUE
            ELSE IF date_to # NoDate /\ date.t > date_to.t THEN FALSE
            ELSE TRUE

\* `'key' in filters`
Has(filters, key) == key \in DOMAIN filters

NoInput == [form |-> "none", t |-> 0]

\* filters.get(key) of a date key
GetDate(filters, key) == IF Has(filters, key) THEN filters[key] ELSE NoInput

\* The date-range stage
FilterDates(data, filters) ==
    IF Has(filters, "date_from") \/ Has(filters, "date_to")
    THEN LET date_from == ParseDate(GetDate(filters, "date_from"))
             date_to == ParseDate(GetDate(filters, "date_to"))
         IN SelectSeq(data, LAMBDA item :
                IsWithinDateRange(item.created_at, date_from, date_to))
    ELSE data

\* The engagement stage.  The value of 'min_engagement' is <<>> for None and
\* <<m>> for the number m.
FilterEngagement(data, filters) ==
    IF Has(filters, "min_engagement") /\ filters.min_engagement # <<>>
    THEN SelectSeq(data, LAMBDA item :
             GetTotalEngagement(item) >= filters.min_engagement[1])
    ELSE data

\* The keyword stage
FilterKeywords(data, filters) ==
    IF Has(filters, "keywords")
    THEN SelectSeq(data, LAMBDA item : ContainsKeywords(item, filters.keywords))
    ELSE data

\* The exclusion stage
FilterExcluded(data, filters) ==
    IF Has(filters, "exclude_keywords")
    THEN SelectSeq(data, LAMBDA item :
             ~ContainsKeywords(item, filters.exclude_keywords))
    ELSE data

\* The content-type stage
FilterType(data, filters) ==
    IF Has(filters, "content_type")
    THEN SelectSeq(data, LAMBDA item : item.type = filters.content_type)
    ELSE data

\* `filtered = filtered[:filters['limit']]`
FilterLimit(data, filters) ==
    IF Has(filters, "limit") THEN Take(data, filters.limit) ELSE data

\* Mutant of ApplyFilters: the limit is applied before the other filters.
ApplyFiltersLimitFirst(data, filters) ==
    IF DOMAIN filters = {} THEN data
    ELSE FilterType(FilterExcluded(FilterKeywords(FilterEngagement(
             FilterDates(FilterLimit(data, filters), filters), filters),
             filters), filters), filters)

\* Mutant of ApplyFilters: an empty filter dict gives an empty result.
ApplyFiltersEmptyDrops(data, filters) ==
    IF DOMAIN filters = {} THEN <<>>
    ELSE FilterLimit(FilterType(FilterExcluded(FilterKeywords(
             FilterEngagement(FilterDates(data, filters), filters),
             filters), filters), filters), filters)

\* AdvancedScraper.apply_filters: `if not filters: return data`, then the
\* stages in the order of the code.  The filter dict index.py builds has the
\* keys 'limit' and 'fetch_comments' only, so that for it every stage but the
\* last leaves the data as they are.
ApplyFilters(data, filters) ==
    IF DOMAIN filters = {} THEN data
    ELSE FilterLimit(FilterType(FilterExcluded(FilterKeywords(
             FilterEngagement(FilterDates(data, filters), filters),
             filters), filters), filters), filters)

\* AdvancedScraper.scrape on the one-element input list ['r/<name>']
AdvancedScrape(resp, filters) ==
    ApplyFilters(AdvancedScrapeReddit(resp), filters)

\* The loop body of index.py's scrape_reddit: a record per scraped item.
IndexSource(resp, src, filters) ==
    LET scraped == AdvancedScrape(resp, filters)
    IN [recs |-> [i \in 1..Len(scraped) |->
                    Rec(src, "post", "advanced_scraper", NoMethods)],
        aborted |-> FALSE]

IndexScrape ==
    /\ platform = "index"
    /\ pc = "scrape"
    /\ \E resp \in ListingResponses :
          /\ AfterSource(IndexSource(resp, idx, options), "scrape")
          /\ log' = Append(log, Attempt(idx, "advanced",
                                        ~AdvancedFetchFailed(resp)))
    /\ UNCHANGED <<args, ret, platform, sources, avail, cookies, options, success,
                   response, pageResult>>

(***************************************************************************)
(* api/facebook_scraper.py, FacebookScraper.scrape_page                    *)
(***************************************************************************)
\* `if response and response.status_code == 200:` and, inside it,
\* `if 'login' in response.url.lower() or 'checkpoint' in ...:`
PageAdvances(resp) == resp.got /\ resp.ok200 /\ resp.redirected

\* `if response and response.status_code == 200:` with no login redirect
PageSucceeded(resp) == resp.got /\ resp.ok200 /\ ~resp.redirected

\* _make_request: the response, or None when the session raised
PageRequest(strat, next) ==
    \E resp \in PageResponses :
        /\ response' = resp
        /\ log' = Append(log, Attempt(idx, strat, PageSucceeded(resp)))
        /\ pc' = IF PageAdvances(resp) THEN next ELSE "process"
        /\ UNCHANGED <<args, ret, platform, sources, avail, cookies, options, idx,
                       success, results, pageResult>>

\* Strategy 1: mbasic.facebook.com
PageMbasic ==
    /\ platform = "fbpage"
    /\ pc = "mbasic"
    /\ PageRequest("mbasic", "mobile")

\* Strategy 2: m.facebook.com
PageMobile ==
    /\ platform = "fbpage"
    /\ pc = "mobile"
    /\ PageRequest("mobile", "desktop")

\* Strategy 3: www.facebook.com/<page>/posts
PageDesktop ==
    /\ platform = "fbpage"
    /\ pc = "desktop"
    /\ PageRequest("desktop", "process")

\* Mutant of PageResultOf: the auth_required result has no 'error' key.
PageResultNoError(resp) ==
    IF PageSucceeded(resp)
    THEN [status |-> "success", hasError |-> FALSE, hasData |-> TRUE]
    ELSE IF resp.got /\ resp.ok200
    THEN [status |-> "auth_required", hasError |-> FALSE, hasData |-> FALSE]
    ELSE [status |-> "failed", hasError |-> TRUE, hasData |-> FALSE]

\* `# Process response`: the dict scrape_page returns.  hasError: an 'error'
\* key; hasData: the 'posts' and 'page_info' keys of _extract_page_data.
PageResultOf(resp) ==
    IF PageSucceeded(resp)
    THEN [status |-> "success", hasError |-> FALSE, hasData |-> TRUE]
    ELSE IF resp.got /\ resp.ok200
    THEN [status |-> "auth_required", hasError |-> TRUE, hasData |-> FALSE]
    ELSE [status |-> "failed", hasError |-> TRUE, hasData |-> FALSE]

PageProcess ==
    /\ platform = "fbpage"
    /\ pc = "process"
    /\ pageResult' = PageResultOf(response)
    /\ pc' = "done"
    /\ UNCHANGED <<args, ret, platform, sources, avail, cookies, options, idx, success,
                   results, log, response>>

(***************************************************************************)
(* Specification                                                           *)
(***************************************************************************)
PlainSources == UNION {[1..n -> {"name"}] : n \in 1..MaxSources}

AllAvailable == [enhanced |-> TRUE, xcancel |-> TRUE, basic |-> TRUE]
\* `options` of an entry point that does not read options.limit
NoOptions == [limit |-> 0]
NoPage == [status |-> "none", hasError |-> FALSE, hasData |-> FALSE]
\* `args` and `ret` of a behaviour that calls none of the functions below
NoCall == <<>>

InitReddit ==
    /\ platform = "reddit"
    /\ sources \in PlainSources
    /\ avail = AllAvailable
    /\ cookies = FALSE
    /\ options = NoOptions
    /\ pc = "arctic"

InitTwitter ==
    /\ platform = "twitter"
    /\ sources \in TwitterSources
    /\ avail \in [enhanced : BOOLEAN, xcancel : BOOLEAN, basic : BOOLEAN]
    /\ cookies = FALSE
    /\ options = NoOptions
    /\ pc = "top"

InitInstagram ==
    /\ platform = "instagram"
    /\ sources \in PlainSources
    /\ avail = AllAvailable
    /\ cookies = FALSE
    /\ options = NoOptions
    /\ pc = "profile"

InitFacebook ==
    /\ platform = "facebook"
    /\ sources \in PlainSources
    /\ avail = AllAvailable
    /\ cookies \in BOOLEAN
    /\ options = NoOptions
    /\ pc = "page"

InitIndex ==
    /\ platform = "index"
    /\ sources \in PlainSources
    /\ avail = AllAvailable
    /\ cookies = FALSE
    /\ options \in [limit : 0..MaxPosts]
    /\ pc = "scrape"

InitPage ==
    /\ platform = "fbpage"
    /\ sources = <<"name">>
    /\ avail = AllAvailable
    /\ cookies = FALSE
    /\ options = NoOptions
    /\ pc = "mbasic"

Init ==
    /\ \/ InitReddit
       \/ InitTwitter
       \/ InitInstagram
       \/ InitFacebook
       \/ InitIndex
       \/ InitPage
    /\ idx = 1
    /\ success = FALSE
    /\ results = <<>>
    /\ log = <<>>
    /\ response = NoResponse
    /\ pageResult = NoPage
    /\ args = NoCall
    /\ ret = NoCall

Next ==
    \/ RedditArctic
    \/ RedditRss
    \/ RedditJson
    \/ RedditFinish
    \/ TwitterSearch
    \/ TwitterStatus
    \/ TwitterEnhanced
    \/ TwitterXcancel
    \/ TwitterBasic
    \/ TwitterFinish
    \/ InstagramProfile
    \/ FacebookPage
    \/ IndexScrape
    \/ PageMbasic
    \/ PageMobile
    \/ PageDesktop
    \/ PageProcess

Spec == Init /\ [][Next]_vars

\* The variables of the batch entry points, in a behaviour that is one call
\* of a function of social_scraper.py.
NoBatch ==
    /\ sources = <<>>
    /\ avail = AllAvailable
    /\ cookies = FALSE
    /\ options = NoOptions
    /\ idx = 1
    /\ success = FALSE
    /\ results = <<>>
    /\ log = <<>>
    /\ response = NoResponse
    /\ pageResult = NoPage

(***************************************************************************)
(* social_scraper.py, AdvancedScraper._parse_comments_recursive            *)
(*                                                                         *)
(* A reply tree is a list of items.  An item of kind "t1" is a comment,    *)
(* whose `replies` is the list under data.replies.data.children (empty     *)
(* when data.replies is '' or holds no children); an item of kind "more"   *)
(* carries data.count and data.children, the ids of the comments it hides; *)
(* an item of kind "other" is of any other kind.  `id` is the path of the  *)
(* item from the root, `parent_id` the path of its parent.                 *)
(***************************************************************************)
MaxNodes == 4           \* most items in a reply tree
DefaultMaxDepth == 10   \* max_depth=10

\* The shapes of the 'more' items: count 0 or 1, no hidden id or one.
MoreShapes ==
    {[kind |-> "more", replies |-> <<>>, count |-> c, hidden |-> h] :
        c \in {0, 1}, h \in {0, 1}}

OtherShape == [kind |-> "other", replies |-> <<>>, count |-> 0, hidden |-> 0]

RECURSIVE ListShapes(_)
RECURSIVE ItemShapes(_)
\* The reply lists of exactly n items, nested ones included.
ListShapes(n) ==
    IF n = 0 THEN {<<>>}
    ELSE UNION {{<<item>> \o rest : item \in ItemShapes(k),
                                    rest \in ListShapes(n - k)} : k \in 1..n}

\* The items that hold exactly n items, themselves included.
ItemShapes(n) ==
    {[kind |-> "t1", replies |-> r, count |-> 0, hidden |-> 0] :
        r \in ListShapes(n - 1)}
    \cup (IF n = 1 THEN MoreShapes \cup {OtherShape} ELSE {})

RECURSIVE Identified(_, _)
\* The reply list of that shape under the item `parent`, ids filled in.
Identified(shape, parent) ==
    [k \in 1..Len(shape) |->
        LET id == Append(parent, k)
        IN [kind |-> shape[k].kind,
            id |-> id,
            parent_id |-> parent,
            replies |-> Identified(shape[k].replies, id),
            count |-> shape[k].count,
            children |-> [j \in 1..shape[k].hidden |-> Append(id, j)]]]

ReplyTrees ==
    {Identified(shape, <<>>) : shape \in UNION {ListShapes(n) : n \in 0..MaxNodes}}

\* The values of max_depth: every depth a tree of the model has, one more,
\* and the default.
DepthArgs == (0..MaxNodes) \cup {DefaultMaxDepth}

NoIds == <<>>

\* Mutant of ParsedComment: the entry carries the depth of the list below.
ParsedCommentBelow(item, depth) ==
    [type |-> "comment", id |-> item.id, depth |-> depth + 1,
     parent_id |-> item.parent_id, count |-> 0, comment_ids |-> NoIds]

\* `parsed_comment = {...}`: the entry of a comment.  It has no 'type' key,
\* which `type` "comment" stands for, no 'count' and no 'comment_ids'.
ParsedComment(item, depth) ==
    [type |-> "comment", id |-> item.id, depth |-> depth,
     parent_id |-> item.parent_id, count |-> 0, comment_ids |-> NoIds]

\* Mutant of ShouldRecurse: the bound is inclusive.
ShouldRecurseInclusive(item, depth, max_depth) ==
    depth <= max_depth /\ item.replies # <<>>

\* Mutant of ShouldRecurse: max_depth is not consulted.
ShouldRecurseUnbounded(item, depth, max_depth) == item.replies # <<>>

\* `if depth < max_depth and comment.get('replies') and isinstance(...)` and
\* `if 'data' in comment['replies'] and 'children' in ...`
ShouldRecurse(item, depth, max_depth) ==
    depth < max_depth /\ item.replies # <<>>

\* `elif item['kind'] == 'more':` the entries appended for a 'more' item: a
\* placeholder when the item has children and a positive count, else none.
\* A placeholder has no 'id' key.
MoreComments(item, depth) ==
    IF item.children # <<>> /\ item.count > 0
    THEN <<[type |-> "more_comments", id |-> NoIds, depth |-> depth,
            parent_id |-> item.parent_id, count |-> item.count,
            comment_ids |-> item.children]>>
    ELSE <<>>

RECURSIVE ParseCommentsPostOrder(_, _, _)
\* Mutant of ParseCommentsRecursive: the entry of a comment is appended
\* after the entries of its replies.
ParseCommentsPostOrder(comment_list, depth, max_depth) ==
    IF comment_list = <<>> THEN <<>>
    ELSE LET item == Head(comment_list)
             parsed ==
                 IF item.kind = "t1"
                 THEN (IF ShouldRecurse(item, depth, max_depth)
                       THEN ParseCommentsPostOrder(item.replies, depth + 1,
                                                   max_depth)
                       ELSE <<>>)
                      \o <<ParsedComment(item, depth)>>
                 ELSE IF item.kind = "more"
                 THEN MoreComments(item, depth)
                 ELSE <<>>
         IN parsed \o ParseCommentsPostOrder(Tail(comment_list), depth,
                                             max_depth)

RECURSIVE ParseCommentsRecursive(_, _, _)
\* `for item in comment_list:`, the entries of the first item followed by
\* those of the rest of the list.
ParseCommentsRecursive(comment_list, depth, max_depth) ==
    IF comment_list = <<>> THEN <<>>
    ELSE LET item == Head(comment_list)
             parsed ==
                 IF item.kind = "t1"
                 THEN <<ParsedComment(item, depth)>>
                      \o (IF ShouldRecurse(item, depth, max_depth)
                          THEN ParseCommentsRecursive(item.replies, depth + 1,
                                                      max_depth)
                          ELSE <<>>)
                 ELSE IF item.kind = "more"
                 THEN MoreComments(item, depth)
                 ELSE <<>>
         IN parsed \o ParseCommentsRecursive(Tail(comment_list), depth,
                                             max_depth)

\* One call _parse_comments_recursive(comment_list, 0, max_depth), as
\* scrape_reddit_comments makes it.
ParseComments ==
    /\ platform = "flatten"
    /\ pc = "call"
    /\ ret' = ParseCommentsRecursive(args.comment_list, 0, args.max_depth)
    /\ pc' = "done"
    /\ UNCHANGED <<platform, sources, avail, cookies, options, idx, success,
                   results, log, response, pageResult, args>>

InitFlatten ==
    /\ platform = "flatten"
    /\ NoBatch
    /\ pc = "call"
    /\ args \in [comment_list : ReplyTrees, max_depth : DepthArgs]
    /\ ret = NoCall

NextFlatten == ParseComments

SpecFlatten == InitFlatten /\ [][NextFlatten]_vars

(***************************************************************************)
(* The same call, executed step by step.  A frame of the call stack is one *)
(* activation of _parse_comments_recursive: the list it iterates over, the *)
(* position of the next item, its depth argument and its parsed_comments.  *)
(* A step is one iteration of the `for` loop, which may push the frame of  *)
(* the nested call, or the `return` of the innermost activation, whose     *)
(* list the caller appends to its own.                                     *)
(***************************************************************************)
Frame(comment_list, depth) ==
    [list |-> comment_list, pos |-> 1, depth |-> depth, parsed |-> <<>>]

NoStack == <<>>

\* The entries the loop body appends for `item` before any nested call.
ItemEntries(item, depth) ==
    IF item.kind = "t1" THEN <<ParsedComment(item, depth)>>
    ELSE IF item.kind = "more" THEN MoreComments(item, depth)
    ELSE <<>>

\* _parse_comments_recursive(comment_list, depth=0, max_depth=max_depth)
RecursionEnter ==
    /\ platform = "recursion"
    /\ pc = "call"
    /\ ret' = [stack |-> <<Frame(args.comment_list, 0)>>, value |-> <<>>]
    /\ pc' = "run"
    /\ UNCHANGED <<platform, sources, avail, cookies, options, idx, success,
                   results, log, response, pageResult, args>>

\* One iteration of `for item in comment_list:` in the innermost activation.
RecursionItem ==
    /\ platform = "recursion"
    /\ pc = "run"
    /\ LET n == Len(ret.stack)
           top == ret.stack[n]
       IN /\ top.pos <= Len(top.list)
          /\ LET item == top.list[top.pos]
                 here == [top EXCEPT
                            !.pos = top.pos + 1,
                            !.parsed = top.parsed \o ItemEntries(item, top.depth)]
                 below == IF item.kind = "t1"
                             /\ ShouldRecurse(item, top.depth, args.max_depth)
                          THEN <<Frame(item.replies, top.depth + 1)>>
                          ELSE NoStack
             IN ret' = [ret EXCEPT
                          !.stack = (SubSeq(ret.stack, 1, n - 1) \o <<here>>)
                                       \o below]
    /\ pc' = "run"
    /\ UNCHANGED <<platform, sources, avail, cookies, options, idx, success,
                   results, log, response, pageResult, args>>

\* `return parsed_comments` of the innermost activation; the caller does
\* `parsed_comments.extend(nested_comments)`.
RecursionReturn ==
    /\ platform = "recursion"
    /\ pc = "run"
    /\ LET n == Len(ret.stack)
           top == ret.stack[n]
       IN /\ top.pos > Len(top.list)
          /\ IF n = 1
             THEN /\ ret' = [stack |-> NoStack, value |-> top.parsed]
                  /\ pc' = "done"
             ELSE /\ ret' = [ret EXCEPT
                               !.stack = SubSeq(ret.stack, 1, n - 2) \o
                                   <<[ret.stack[n - 1] EXCEPT
                                        !.parsed = @ \o top.parsed]>>]
                  /\ pc' = "run"
    /\ UNCHANGED <<platform, sources, avail, cookies, options, idx, success,
                   results, log, response, pageResult, args>>

RECURSIVE OneMoreShape(_)
\* Every 'more' item of the list has a count of 1 and one hidden id.
OneMoreShape(comment_list) ==
    \A k \in 1..Len(comment_list) :
        /\ comment_list[k].kind = "more" =>
              comment_list[k].count = 1 /\ Len(comment_list[k].children) = 1
        /\ OneMoreShape(comment_list[k].replies)

\* The reply trees the calls are followed on: the nesting of the calls
\* depends on the kinds and the replies of the items only, so the 'more'
\* items are of one shape, the one that appends a placeholder.
CallTrees == {t \in ReplyTrees : OneMoreShape(t)}

InitRecursion ==
    /\ platform = "recursion"
    /\ NoBatch
    /\ pc = "call"
    /\ args \in [comment_list : CallTrees, max_depth : DepthArgs]
    /\ ret = NoCall

NextRecursion ==
    \/ RecursionEnter
    \/ RecursionItem
    \/ RecursionReturn

SpecRecursion == InitRecursion /\ [][NextRecursion]_vars

\* The interpreter runs a call that has a next step: the call is a single
\* thread that nothing suspends.
SpecRecursionFair == SpecRecursion /\ WF_vars(NextRecursion)

(***************************************************************************)
(* One call of AdvancedScraper.apply_filters.  The inputs come in four     *)
(* families: items that differ in created_at with date filters, items that *)
(* differ in their engagement dict with a threshold, items that differ in  *)
(* their text with keyword filters, and, for the pipeline as a whole, one  *)
(* item that passes every configured filter and the items that differ from *)
(* it in one key, with every subset of the filter keys.                    *)
(***************************************************************************)
MaxItems == 2       \* longest list of items
MaxKeywords == 2    \* longest keyword list

Times == 1..3

\* item.get('created_at'): no value, a string that is no ISO timestamp, an
\* ISO timestamp without offset, with a trailing Z, with a UTC offset.
DateStrings ==
    {[form |-> f, t |-> 0] : f \in {"missing", "garbage"}}
    \cup {[form |-> f, t |-> t] : f \in {"iso", "isoZ", "offset"}, t \in Times}

\* The values of 'date_from' and 'date_to': a string no format parses, and
\* the middle time written without and with a trailing Z.
DateInputs ==
    {[form |-> "garbage", t |-> 0]}
    \cup {[form |-> f, t |-> 2] : f \in {"iso", "isoZ"}}

NoEngagement == <<>>

\* The 'engagement' dict format_reddit_post builds: two counts and
\* upvote_ratio, a float between 0.0 and 1.0 of which the model has the two
\* ends.
RedditEngagement ==
    [{"score", "comments", "upvote_ratio"} -> {0, 1}]

\* The item that every filter of PipelineFilters lets pass.
BaseItem ==
    [created_at |-> [form |-> "iso", t |-> 2],
     engagement |-> [k \in {"score", "comments", "upvote_ratio"} |->
                        IF k = "score" THEN 1 ELSE 0],
     title |-> <<"A">>, content |-> <<>>, author |-> <<>>, type |-> "post"]

DateItems == {[BaseItem EXCEPT !.created_at = d] : d \in DateStrings}

EngagementItems ==
    {[BaseItem EXCEPT !.engagement = e] :
        e \in RedditEngagement \cup {NoEngagement}}

TextItems ==
    {[BaseItem EXCEPT !.title = a, !.content = b, !.author = c] :
        a \in {<<>>, <<"A">>, <<"b">>}, b \in {<<>>, <<"A">>},
        c \in {<<>>, <<"b">>}}

PipelineItems ==
    {BaseItem,
     [BaseItem EXCEPT !.created_at = [form |-> "iso", t |-> 1]],
     [BaseItem EXCEPT !.engagement = NoEngagement],
     [BaseItem EXCEPT !.title = <<>>],
     [BaseItem EXCEPT !.author = <<"b">>],
     [BaseItem EXCEPT !.type = "comment"]}

\* The dict d without the keys outside `keys`
Restrict(d, keys) == [k \in keys |-> d[k]]

DateFilters ==
    {Restrict([date_from |-> a, date_to |-> b], keys) :
        a \in DateInputs, b \in DateInputs,
        keys \in (SUBSET {"date_from", "date_to"}) \ {{}}}

EngagementFilters ==
    {[min_engagement |-> m] : m \in {<<>>} \cup {<<n>> : n \in 0..3}}

KeywordLists == SeqsUpTo({<<"a">>, <<"B">>}, MaxKeywords)

KeywordFilters ==
    {[keywords |-> K] : K \in KeywordLists}
    \cup {[exclude_keywords |-> K] : K \in KeywordLists}

FilterKeys ==
    {"date_from", "min_engagement", "keywords", "exclude_keywords",
     "content_type", "limit"}

PipelineFilters ==
    {Restrict([date_from |-> [form |-> "iso", t |-> 2],
               min_engagement |-> <<1>>,
               keywords |-> << <<"a">> >>,
               exclude_keywords |-> << <<"B">> >>,
               content_type |-> "post",
               limit |-> n], keys) :
        n \in 0..MaxItems, keys \in SUBSET FilterKeys}

\* filtered_data = self.apply_filters(data, filters)
ApplyFiltersCall ==
    /\ platform = "filter"
    /\ pc = "call"
    /\ ret' = ApplyFilters(args.data, args.filters)
    /\ pc' = "done"
    /\ UNCHANGED <<platform, sources, avail, cookies, options, idx, success,
                   results, log, response, pageResult, args>>

InitFilter ==
    /\ platform = "filter"
    /\ NoBatch
    /\ pc = "call"
    /\ \/ args \in [data : SeqsUpTo(DateItems, MaxItems),
                    filters : DateFilters]
       \/ args \in [data : SeqsUpTo(EngagementItems, MaxItems),
                    filters : EngagementFilters]
       \/ args \in [data : SeqsUpTo(TextItems, MaxItems),
                    filters : KeywordFilters]
       \/ args \in [data : SeqsUpTo(PipelineItems, MaxItems),
                    filters : PipelineFilters]
    /\ ret = NoCall

NextFilter == ApplyFiltersCall

SpecFilter == InitFilter /\ [][NextFilter]_vars

(***************************************************************************)
(* A Reddit request with options.limit: scrape_reddit of api/scrape.py,    *)
(* which do_POST hands `options` to, and scrape_reddit of api/index.py.  *)
(***************************************************************************)
InitRedditLimit ==
    /\ platform = "reddit"
    /\ sources \in PlainSources
    /\ avail = AllAvailable
    /\ cookies = FALSE
    /\ options \in [limit : 1..MaxPosts]
    /\ pc = "arctic"

InitLimit ==
    /\ \/ InitRedditLimit
       \/ InitIndex
    /\ idx = 1
    /\ success = FALSE
    /\ results = <<>>
    /\ log = <<>>
    /\ response = NoResponse
    /\ pageResult = NoPage
    /\ args = NoCall
    /\ ret = NoCall

NextLimit ==
    \/ RedditArctic
    \/ RedditRss
    \/ RedditJson
    \/ RedditFinish
    \/ IndexScrape

SpecLimit == InitLimit /\ [][NextLimit]_vars

(***************************************************************************)
(* The records made of the posts of one hot-listing payload (HTTP 200): by *)
(* strategy 3 of scrape_reddit in api/scrape.py, and by scrape_reddit and  *)
(* format_reddit_post of social_scraper.py.  A post of the payload is its  *)
(* title, here the position it has in the payload, and its created_utc.    *)
(***************************************************************************)
\* created_utc of a post of Reddit: a positive epoch value
Epochs == {1, 2}

Payloads ==
    UNION {{[i \in 1..n |-> [title |-> i, created_utc |-> e[i]]] :
               e \in [1..n -> Epochs]} : n \in 0..(PostLimit + 1)}

\* Mutant of FromTimestamp: the epoch value is taken for milliseconds.
FromTimestampMillis(epoch) == DateTime(FALSE, epoch \div 1000)

\* datetime.fromtimestamp(epoch): the naive local datetime of that instant
FromTimestamp(epoch) == DateTime(FALSE, epoch)

\* datetime.isoformat() of a naive datetime: an ISO string without offset
IsoFormat(date) == [form |-> "iso", t |-> date.t]

\* The empty string
NoDateString == [form |-> "missing", t |-> 0]

\* `results.append({...})` of strategy 3; created_at is '' when created_utc
\* is missing or 0.
JsonApiPost(post) ==
    [platform |-> "reddit",
     title |-> post.title,
     created_at |-> IF post.created_utc # 0
                    THEN IsoFormat(FromTimestamp(post.created_utc))
                    ELSE NoDateString,
     strategy_used |-> "json_api"]

\* `for post_item in posts[:10]:` of strategy 3
JsonApiPosts(posts) ==
    LET cut == Take(posts, PostLimit)
    IN [i \in 1..Len(cut) |-> JsonApiPost(cut[i])]

\* format_reddit_post
FormatRedditPost(post) ==
    [platform |-> "reddit",
     type |-> "post",
     title |-> post.title,
     created_at |-> IsoFormat(FromTimestamp(post.created_utc))]

\* `for item in data['data']['children']:` of AdvancedScraper.scrape_reddit
AdvancedRedditPosts(posts) ==
    [i \in 1..Len(posts) |-> FormatRedditPost(posts[i])]

\* Strategy 3 of scrape_reddit on a 200 response with that payload
JsonApiNormalize ==
    /\ platform = "json_api"
    /\ pc = "call"
    /\ ret' = JsonApiPosts(args.posts)
    /\ pc' = "done"
    /\ UNCHANGED <<platform, sources, avail, cookies, options, idx, success,
                   results, log, response, pageResult, args>>

\* AdvancedScraper.scrape_reddit on a 200 response with that payload
AdvancedNormalize ==
    /\ platform = "advanced"
    /\ pc = "call"
    /\ ret' = AdvancedRedditPosts(args.posts)
    /\ pc' = "done"
    /\ UNCHANGED <<platform, sources, avail, cookies, options, idx, success,
                   results, log, response, pageResult, args>>

InitNormalize ==
    /\ platform \in {"json_api", "advanced"}
    /\ NoBatch
    /\ pc = "call"
    /\ args \in [posts : Payloads]
    /\ ret = NoCall

NextNormalize ==
    \/ JsonApiNormalize
    \/ AdvancedNormalize

SpecNormalize == InitNormalize /\ [][NextNormalize]_vars

(***************************************************************************)
(* api/scrape.py, strategy 1 of scrape_reddit with the per-post comment    *)
(* request that options['fetch_comments'] switches on.  For every post of  *)
(* the listing the outcome of that request is one of                       *)
(*   noid     post.get('id') is falsy: no request is made                  *)
(*   neterr   requests.get raised                                          *)
(*   non200   a response whose status_code is not 200                      *)
(*   badbody  200, but response.json() or the conversion of a comment      *)
(*            raised                                                       *)
(*   ok       200 and a list of comments                                   *)
(***************************************************************************)
CommentOutcomes == {"noid", "neterr", "non200", "badbody", "ok"}

PostComments == [1..MaxPosts -> CommentOutcomes]

\* What the comment block leaves in post_data: 'comments' stays the
\* num_comments count unless a 200 replaced it by the list; an exception
\* sets 'comment_fetch_error'.
CommentFetch(fetch, outcome) ==
    CASE ~fetch \/ outcome \in {"noid", "non200"} ->
            [comments |-> "count", comment_fetch_error |-> FALSE]
      [] outcome = "ok" ->
            [comments |-> "list", comment_fetch_error |-> FALSE]
      [] OTHER -> [comments |-> "count", comment_fetch_error |-> TRUE]

\* post_data as appended by strategy 1
PostData(src, fetched) ==
    [src |-> src, kind |-> "post", tag |-> RedditTags[1],
     methods |-> NoMethods, comments |-> fetched.comments,
     comment_fetch_error |-> fetched.comment_fetch_error]

\* The comment requests made for the first n posts, in order.
CommentRequests(cs, n, src, fetch) ==
    LET asked == SelectSeq([i \in 1..n |-> cs[i]],
                           LAMBDA c : fetch /\ c # "noid")
    IN [j \in 1..Len(asked) |-> Attempt(src, "comments", asked[j] = "ok")]

\* Mutant of ArcticWithComments: a post whose comment request did not give
\* a 200 is left out.
ArcticDroppingPosts(resp, cs, src, fetch) ==
    IF resp.kind # "ok" \/ resp.items = <<>>
    THEN [recs |-> <<>>, ok |-> FALSE, requests |-> <<>>]
    ELSE LET cut == Take(resp.items, PostLimit)
             stop == FirstBad(cut)
             kept == SelectSeq([i \in 1..(stop - 1) |-> cs[i]],
                               LAMBDA c : ~fetch \/ c \in {"noid", "ok"})
         IN [recs |-> [i \in 1..Len(kept) |->
                          PostData(src, CommentFetch(fetch, kept[i]))],
             ok |-> stop > Len(cut),
             requests |-> CommentRequests(cs, stop - 1, src, fetch)]

\* Strategy 1 as a whole: post_data is built (which may raise), the comment
\* block runs inside its own try/except, and post_data is appended.
ArcticWithComments(resp, cs, src, fetch) ==
    IF resp.kind # "ok" \/ resp.items = <<>>
    THEN [recs |-> <<>>, ok |-> FALSE, requests |-> <<>>]
    ELSE LET cut == Take(resp.items, PostLimit)
             stop == FirstBad(cut)
         IN [recs |-> [i \in 1..(stop - 1) |->
                          PostData(src, CommentFetch(fetch, cs[i]))],
             ok |-> stop > Len(cut),
             requests |-> CommentRequests(cs, stop - 1, src, fetch)]

\* Strategy 1: Arctic Shift API, comment requests included
RedditArcticComments ==
    /\ platform = "reddit"
    /\ pc = "arctic"
    /\ \E resp \in ListingResponses, cs \in PostComments :
          LET out == ArcticWithComments(resp, cs, idx, options.fetch_comments)
          IN /\ results' = results \o out.recs
             /\ success' = out.ok
             /\ log' = (log \o out.requests)
                          \o <<Attempt(idx, RedditStrategies[1], out.ok)>>
    /\ pc' = "rss"
    /\ UNCHANGED <<args, ret, platform, sources, avail, cookies, options, idx,
                   response, pageResult>>

\* The batches of one source: the comment requests of a source are made
\* within its own strategy 1.
SingleSource == {s \in PlainSources : Len(s) = 1}

InitComments ==
    /\ platform = "reddit"
    /\ sources \in SingleSource
    /\ avail = AllAvailable
    /\ cookies = FALSE
    /\ options \in [limit : {0}, fetch_comments : BOOLEAN]
    /\ pc = "arctic"
    /\ idx = 1
    /\ success = FALSE
    /\ results = <<>>
    /\ log = <<>>
    /\ response = NoResponse
    /\ pageResult = NoPage
    /\ args = NoCall
    /\ ret = NoCall

NextComments ==
    \/ RedditArcticComments
    \/ RedditRss
    \/ RedditJson
    \/ RedditFinish

SpecComments == InitComments /\ [][NextComments]_vars

(***************************************************************************)
(* social_scraper.py, AdvancedScraper.export_results and flatten_dict      *)
(*                                                                         *)
(* A dict is the list of its entries in insertion order, the keys of one   *)
(* dict being distinct; a key is the list of its characters.  A value is a *)
(* dict, a list or a scalar (a string, a number, None).                    *)
(***************************************************************************)
MaxEntries == 3     \* most entries in a list of records, nested ones included
MaxExports == 2     \* most calls of export_results

\* 'a', 'b' and 'a_b'
Keys == {<<"a">>, <<"b">>, <<"a", "_", "b">>}

Scalar == [kind |-> "scalar", entries |-> <<>>]
ListValue == [kind |-> "list", entries |-> <<>>]
DictValue(entries) == [kind |-> "dict", entries |-> entries]

\* str(v) of a list
StrValue == [kind |-> "str", entries |-> <<>>]

DistinctKeys(entries) ==
    \A i, j \in 1..Len(entries) : entries[i].key = entries[j].key => i = j

RECURSIVE DictShapes(_)
RECURSIVE EntryShapes(_)
\* The dicts of exactly n entries, those of nested dicts included.
DictShapes(n) ==
    IF n = 0 THEN {<<>>}
    ELSE {d \in UNION {{<<e>> \o rest : e \in EntryShapes(k),
                                        rest \in DictShapes(n - k)} :
                          k \in 1..n} : DistinctKeys(d)}

\* The entries that hold exactly n entries, themselves included.
EntryShapes(n) ==
    {[key |-> k, value |-> v] :
        k \in Keys,
        v \in (IF n = 1 THEN {Scalar, ListValue} ELSE {})
              \cup {DictValue(d) : d \in DictShapes(n - 1)}}

NestedDicts == UNION {DictShapes(n) : n \in 0..MaxEntries}

RECURSIVE RecordLists(_)
\* The result lists whose records and entries are n in number.
RecordLists(n) ==
    IF n = 0 THEN {<<>>}
    ELSE UNION {{<<d>> \o rest : d \in DictShapes(k - 1),
                                 rest \in RecordLists(n - k)} : k \in 1..n}

ResultLists == UNION {RecordLists(n) : n \in 0..MaxEntries}

\* `new_key = f"{parent_key}{sep}{k}" if parent_key else k`
NewKey(parent_key, k) ==
    IF parent_key # <<>> THEN (parent_key \o <<"_">>) \o k ELSE k

RECURSIVE FlattenItems(_, _)
\* The list `items` that the loop of flatten_dict builds.
FlattenItems(d, parent_key) ==
    IF d = <<>> THEN <<>>
    ELSE LET k == Head(d).key
             v == Head(d).value
             new_key == NewKey(parent_key, k)
             item == IF v.kind = "dict" THEN FlattenItems(v.entries, new_key)
                     ELSE IF v.kind = "list"
                     THEN <<[key |-> new_key, value |-> StrValue]>>
                     ELSE <<[key |-> new_key, value |-> v]>>
         IN item \o FlattenItems(Tail(d), parent_key)

\* d[key] = value
SetItem(d, key, value) ==
    IF \E i \in 1..Len(d) : d[i].key = key
    THEN [i \in 1..Len(d) |->
            IF d[i].key = key THEN [key |-> key, value |-> value] ELSE d[i]]
    ELSE Append(d, [key |-> key, value |-> value])

RECURSIVE DictOfItems(_, _)
\* dict(items): the pairs are set one after the other, a later pair
\* replacing the value of an earlier pair with the same key.
DictOfItems(d, items) ==
    IF items = <<>> THEN d
    ELSE DictOfItems(SetItem(d, Head(items).key, Head(items).value),
                     Tail(items))

\* `return dict(items)`
FlattenDict(d, parent_key) == DictOfItems(<<>>, FlattenItems(d, parent_key))

\* One call flatten_dict(item), as export_results makes it.
FlattenDictCall ==
    /\ platform = "flatten_dict"
    /\ pc = "call"
    /\ ret' = FlattenDict(args.d, <<>>)
    /\ pc' = "done"
    /\ UNCHANGED <<platform, sources, avail, cookies, options, idx, success,
                   results, log, response, pageResult, args>>

InitFlattenDict ==
    /\ platform = "flatten_dict"
    /\ NoBatch
    /\ pc = "call"
    /\ args \in [d : NestedDicts]
    /\ ret = NoCall

NextFlattenDict == FlattenDictCall

SpecFlattenDict == InitFlattenDict /\ [][NextFlattenDict]_vars

(***************************************************************************)
(* social_scraper.py, AdvancedScraper.export_results.  A file is the list  *)
(* of the tokens written to it; the file name is made of the second at     *)
(* which the call reads the clock and of the format.                       *)
(***************************************************************************)
\* datetime.now() at the calls, in seconds
Clock == 1..2

RECURSIVE Joined(_, _)
\* sep.join(parts), every part and `sep` being a list of tokens
Joined(parts, sep) ==
    IF parts = <<>> THEN <<>>
    ELSE IF Len(parts) = 1 THEN parts[1]
    ELSE (parts[1] \o sep) \o Joined(Tail(parts), sep)

JsonString(key) == (<<"quote">> \o key) \o <<"quote">>

RECURSIVE JsonValue(_)
\* What json.dump writes for a value: a dict in the order of its entries.
JsonValue(v) ==
    IF v.kind = "dict"
    THEN (<<"{">> \o
          Joined([i \in 1..Len(v.entries) |->
                     (JsonString(v.entries[i].key) \o <<":">>)
                         \o JsonValue(v.entries[i].value)], <<",">>))
         \o <<"}">>
    ELSE IF v.kind = "list" THEN <<"[", "]">>
    ELSE <<"scalar">>

\* json.dump(results, f, indent=2, ensure_ascii=False, default=str)
JsonDump(data) ==
    (<<"[">> \o Joined([i \in 1..Len(data) |-> JsonValue(DictValue(data[i]))],
                       <<",">>))
    \o <<"]">>

\* The order of the characters of the keys: '_' < 'a' < 'b'
CharCode(c) == IF c = "_" THEN 95 ELSE IF c = "a" THEN 97 ELSE 98

RECURSIVE KeyLess(_, _)
\* k1 < k2 for two strings
KeyLess(k1, k2) ==
    IF k1 = <<>> THEN k2 # <<>>
    ELSE IF k2 = <<>> THEN FALSE
    ELSE IF Head(k1) = Head(k2) THEN KeyLess(Tail(k1), Tail(k2))
    ELSE CharCode(Head(k1)) < CharCode(Head(k2))

RECURSIVE Sorted(_)
\* sorted(list(keys))
Sorted(keys) ==
    IF keys = {} THEN <<>>
    ELSE LET least == CHOOSE k \in keys :
                         \A other \in keys \ {k} : KeyLess(k, other)
         IN <<least>> \o Sorted(keys \ {least})

\* `keys.update(self.flatten_dict(item).keys())` over the items
CsvKeys(data) ==
    UNION {{FlattenDict(data[i], <<>>)[j].key :
               j \in 1..Len(FlattenDict(data[i], <<>>))} : i \in 1..Len(data)}

\* writer.writerow(flat_item): a cell per field name, empty when the record
\* has no such key
CsvRow(flat_item, fieldnames) ==
    Joined([c \in 1..Len(fieldnames) |->
               IF \E j \in 1..Len(flat_item) : flat_item[j].key = fieldnames[c]
               THEN <<(CHOOSE it \in {flat_item[j] : j \in 1..Len(flat_item)} :
                          it.key = fieldnames[c]).value.kind>>
               ELSE <<"">>], <<",">>)

\* writer.writeheader() and a row per item
CsvDump(data) ==
    LET fieldnames == Sorted(CsvKeys(data))
    IN (Joined(fieldnames, <<",">>) \o <<"newline">>)
       \o Joined([i \in 1..Len(data) |->
                     CsvRow(FlattenDict(data[i], <<>>), fieldnames)
                         \o <<"newline">>], <<>>)

\* f"scrape_results_{timestamp}.{format}"
FileName(timestamp, format) == [timestamp |-> timestamp, format |-> format]

\* Mutant of ExportFile: the time of the export is written into the file.
ExportFileStamped(data, format, timestamp) ==
    [name |-> FileName(timestamp, format),
     written |-> TRUE,
     contents |-> <<"stamp", ToString(timestamp)>> \o JsonDump(data)]

\* One call export_results(results, format): the file it names and what it
\* writes to it.  An empty list is not written as CSV.
ExportFile(data, format, timestamp) ==
    [name |-> FileName(timestamp, format),
     written |-> format = "json" \/ data # <<>>,
     contents |-> IF format = "json" THEN JsonDump(data)
                  ELSE IF data # <<>> THEN CsvDump(data)
                  ELSE <<>>]

\* The time of this call: not before that of the call before it.
Now(calls) ==
    {t \in Clock : calls # <<>> => t >= calls[Len(calls)].name.timestamp}

ExportResults ==
    /\ platform = "export"
    /\ pc = "call"
    /\ \E timestamp \in Now(ret) :
          ret' = Append(ret, ExportFile(args.results, args.format, timestamp))
    /\ pc' = IF Len(ret) + 1 = MaxExports THEN "done" ELSE "call"
    /\ UNCHANGED <<platform, sources, avail, cookies, options, idx, success,
                   results, log, response, pageResult, args>>

InitExport ==
    /\ platform = "export"
    /\ NoBatch
    /\ pc = "call"
    /\ args \in [results : ResultLists, format : {"json", "csv"}]
    /\ ret = NoCall

NextExport == ExportResults

SpecExport == InitExport /\ [][NextExport]_vars

(***************************************************************************)
(* Properties                                                              *)
(***************************************************************************)
RecordsOf(i) == SelectSeq(results, LAMBDA r : r.src = i)
AttemptsOf(i) == SelectSeq(log, LAMBDA a : a.src = i)
PostsOf(i) == SelectSeq(results, LAMBDA r : r.src = i /\ r.kind = "post")
ErrorsOf(i) == SelectSeq(results, LAMBDA r : r.src = i /\ r.kind = "error")

IsPrefix(s, t) == Len(s) <= Len(t) /\ SubSeq(t, 1, Len(s)) = s

AllFailed(a) == \A k \in 1..Len(a) : ~a[k].ok
StrategiesOf(a) == [k \in 1..Len(a) |-> a[k].strat]

\* The source at position i has been processed completely.
Finished(i) == idx > i

TwitterStrategies == <<"enhanced", "xcancel", "basic">>

\* C1: scrape_reddit attempts Arctic Shift, then RSS, then old.reddit JSON,
\* in that order: the k-th request made for a source is the k-th strategy,
\* every request before the last one made for the source has failed, and so
\* nothing is requested after a success.
C1_RedditStrategyOrder ==
    platform = "reddit" =>
        \A i \in 1..Len(sources) :
            LET a == AttemptsOf(i)
            IN /\ IsPrefix(StrategiesOf(a), RedditStrategies)
               /\ \A k \in 1..(Len(a) - 1) : ~a[k].ok

\* C1 witness: a finished batch in which RSS succeeded for a source after
\* Arctic Shift failed, and the JSON API was not requested.
C1_Witness ==
    /\ platform = "reddit"
    /\ pc = "done"
    /\ \E i \in 1..Len(sources) :
          LET a == AttemptsOf(i)
          IN Len(a) = 2 /\ ~a[1].ok /\ a[2].ok /\ a[2].strat = "rss"

\* C2: for a username source scrape_twitter calls the available timeline
\* scrapers in the order enhanced, xcancel, basic: the scrapers called are a
\* prefix of the available ones in that order, every call before the last
\* one has failed, and so nothing is called after a success.
C2_TwitterStrategyOrder ==
    platform = "twitter" =>
        \A i \in 1..Len(sources) :
            LET a == AttemptsOf(i)
                expected == SelectSeq(TwitterStrategies, LAMBDA t : avail[t])
            IN /\ IsPrefix(StrategiesOf(a), expected)
               /\ \A k \in 1..(Len(a) - 1) : ~a[k].ok

\* C2 witness: with all three scrapers available, xcancel succeeded after
\* the enhanced scraper failed and the basic scraper was not called.
C2_Witness ==
    /\ platform = "twitter"
    /\ pc = "done"
    /\ avail = AllAvailable
    /\ \E i \in 1..Len(sources) :
          LET a == AttemptsOf(i)
          IN Len(a) = 2 /\ ~a[1].ok /\ a[2].ok /\ a[2].strat = "xcancel"

\* The label under which the exhaustion record names a strategy.
RedditLabel(strat) ==
    CASE strat = "arctic" -> "Arctic Shift API"
      [] strat = "rss" -> "RSS Feed"
      [] OTHER -> "JSON API"

\* C3: a source for which all three Reddit strategies failed has exactly one
\* error record, which enumerates every strategy attempted, and no processed
\* source is left with zero records.
C3_RedditExhaustionRecord ==
    platform = "reddit" =>
        \A i \in 1..Len(sources) :
            Finished(i) =>
                LET a == AttemptsOf(i)
                    e == ErrorsOf(i)
                IN /\ Len(RecordsOf(i)) >= 1
                   /\ (Len(a) = 3 /\ AllFailed(a)) =>
                        /\ Len(e) = 1
                        /\ e[1].methods =
                              [k \in 1..Len(a) |-> RedditLabel(a[k].strat)]

\* C3 witness: a finished batch with a source all of whose strategies failed.
C3_Witness ==
    /\ platform = "reddit"
    /\ pc = "done"
    /\ \E i \in 1..Len(sources) :
          Len(AttemptsOf(i)) = 3 /\ AllFailed(AttemptsOf(i))

\* C4 (as claimed): the error record scrape_twitter appends when every
\* timeline strategy failed lists every strategy that was attempted.
C4_TwitterErrorListsStrategies ==
    platform = "twitter" =>
        \A j \in 1..Len(results) :
            (results[j].kind = "error"
             /\ results[j] = TwitterExhausted(results[j].src)) =>
                Len(results[j].methods) = Len(AttemptsOf(results[j].src))

\* C5 (as claimed): when scrape_twitter returns, every source of the batch
\* has at least one record in the list.
C5_TwitterNoSourceDropped ==
    (platform = "twitter" /\ pc = "done") =>
        \A i \in 1..Len(sources) : Len(RecordsOf(i)) >= 1

\* C6 (as claimed): on the AdvancedScraper path a source whose fetch failed
\* has an error record in the results.
C6_IndexFailureHasErrorRecord ==
    platform = "index" =>
        \A i \in 1..Len(sources) :
            (Finished(i) /\ AllFailed(AttemptsOf(i))) => Len(ErrorsOf(i)) >= 1

BatchPlatform == platform \in {"reddit", "twitter", "instagram", "facebook"}
LoopPassedAll == (pc = "done") => (idx = Len(sources) + 1)

\* C7: in scrape_reddit, scrape_twitter, scrape_instagram and scrape_facebook
\* of api/scrape.py no failure aborts the batch: the call never ends by an
\* exception, it returns only after the loop passed every source, and a step
\* never removes or changes a record already in the list.
C7_BatchNeverAborted ==
    /\ [](BatchPlatform => (pc # "aborted" /\ LoopPassedAll))
    /\ [][BatchPlatform => IsPrefix(results, results')]_vars

\* C7 witness: scrape_instagram returned a list that holds the data record
\* of the first source followed by the error record of the second, whose
\* request raised.
C7_Witness ==
    /\ platform = "instagram"
    /\ pc = "done"
    /\ Len(sources) >= 2
    /\ Len(results) >= 2
    /\ results[1] = Rec(1, "profile", "instagram", NoMethods)
    /\ results[2] = Rec(2, "error", "exception", NoMethods)

\* C8 (as claimed): all post records of a source carry one strategy_used
\* tag, the tag of the strategy that succeeded, and no source has both post
\* records and the 'All Reddit access methods failed' record.
C8_RedditSingleTag ==
    platform = "reddit" =>
        \A i \in 1..Len(sources) :
            LET p == PostsOf(i)
                a == AttemptsOf(i)
            IN /\ \A j, k \in 1..Len(p) : p[j].tag = p[k].tag
               /\ \A j \in 1..Len(p) :
                     \A k \in 1..Len(a) :
                        a[k].ok => p[j].tag = RedditTags[k]
               /\ ~(Len(p) >= 1 /\ \E j \in 1..Len(results) :
                                      results[j] = RedditExhausted(i))

\* C9: no strategy is attempted twice for one source, in scrape_reddit (at
\* most three listing requests per source) and in scrape_twitter.
C9_NoRetry ==
    platform \in {"reddit", "twitter"} =>
        \A i \in 1..Len(sources) :
            LET a == AttemptsOf(i)
            IN /\ Len(a) <= 3
               /\ \A j, k \in 1..Len(a) :
                     a[j].strat = a[k].strat => j = k

\* C9 witness: scrape_twitter returned after all three scrapers were called
\* for a source and all three failed.
C9_Witness ==
    /\ platform = "twitter"
    /\ pc = "done"
    /\ \E i \in 1..Len(sources) :
          Len(AttemptsOf(i)) = 3 /\ AllFailed(AttemptsOf(i))

\* C10 (as claimed): scrape_page advances to the next strategy whenever the
\* current one fails in any way, so a call that returns without a success
\* has tried mbasic, mobile and desktop; the result is a success exactly
\* when some strategy succeeded.
C10_PageAdvancesOnAnyFailure ==
    (platform = "fbpage" /\ pc = "done") =>
        /\ AllFailed(log) => Len(log) = 3
        /\ pageResult.status = "success" <=> ~AllFailed(log)

(***************************************************************************)
(* Properties of the comment flattener                                     *)
(***************************************************************************)
RECURSIVE NodesOf(_, _)
\* The items of a reply tree, each with its nesting level (0 at the top).
NodesOf(comment_list, level) ==
    UNION {{[item |-> comment_list[k], level |-> level]}
           \cup NodesOf(comment_list[k].replies, level + 1) :
               k \in 1..Len(comment_list)}

TreeNodes == NodesOf(args.comment_list, 0)
TreeComments == {n \in TreeNodes : n.item.kind = "t1"}
TreeMores == {n \in TreeNodes : n.item.kind = "more"}

\* The positions of the returned list that hold the entry of comment `id`.
EntriesOf(id) ==
    {j \in 1..Len(ret) : ret[j].type = "comment" /\ ret[j].id = id}

\* The placeholders returned for the reply list under the item `parent`.
PlaceholdersOf(parent) ==
    SelectSeq(ret, LAMBDA e : e.type = "more_comments" /\ e.parent_id = parent)

Flattened == platform = "flatten" /\ pc = "done"

\* A tree of comments only, nested exactly three levels deep.
ThreeLevelTree ==
    /\ TreeNodes = TreeComments
    /\ {n.level : n \in TreeNodes} = {0, 1, 2}

\* C11: for a tree of t1 comments nested exactly three levels deep, N in
\* total and no 'more' item, _parse_comments_recursive with the default
\* max_depth returns exactly N entries, one per comment, and the depth of
\* each entry is the nesting level of its comment: 0, 1 or 2.
C11_ThreeLevelTreeFlattened ==
    (Flattened /\ args.max_depth = DefaultMaxDepth /\ ThreeLevelTree) =>
        /\ Len(ret) = Cardinality(TreeComments)
        /\ \A n \in TreeComments :
              /\ Cardinality(EntriesOf(n.item.id)) = 1
              /\ \A j \in EntriesOf(n.item.id) : ret[j].depth = n.level

\* C11 witness: the call returned for a three-level tree of four comments,
\* with the default max_depth, and the list has an entry of depth 2.
C11_Witness ==
    /\ Flattened
    /\ args.max_depth = DefaultMaxDepth
    /\ ThreeLevelTree
    /\ Cardinality(TreeComments) = 4
    /\ \E j \in 1..Len(ret) : ret[j].depth = 2

\* C12: for any reply tree and any max_depth >= 0, every returned entry has
\* depth <= max_depth, every t1 comment whose nesting level is <= max_depth
\* is returned exactly once, and no comment nested deeper is returned.
C12_DepthCutoff ==
    Flattened =>
        /\ \A j \in 1..Len(ret) : ret[j].depth <= args.max_depth
        /\ \A n \in TreeComments :
              Cardinality(EntriesOf(n.item.id)) =
                  IF n.level <= args.max_depth THEN 1 ELSE 0

\* C12 witness: the call returned for a tree that has a comment at level
\* max_depth, which is in the list, and a comment one level deeper.
C12_Witness ==
    /\ Flattened
    /\ \E n, m \in TreeComments :
          /\ n.level = args.max_depth
          /\ m.level = args.max_depth + 1
          /\ EntriesOf(n.item.id) # {}

\* C13 (as claimed): every 'more' item of a visited reply list, one at a
\* level <= max_depth, is represented by exactly one placeholder of type
\* 'more_comments' that carries the depth of that list; the returned list
\* holds nothing else for it.
C13_MoreItemsHavePlaceholders ==
    Flattened =>
        \A n \in TreeNodes :
            n.level <= args.max_depth =>
                LET inList == {m \in TreeMores :
                                  m.item.parent_id = n.item.parent_id}
                    held == PlaceholdersOf(n.item.parent_id)
                IN /\ Len(held) = Cardinality(inList)
                   /\ \A j \in 1..Len(held) : held[j].depth = n.level

(***************************************************************************)
(* Properties of apply_filters                                             *)
(***************************************************************************)
Filtered == platform = "filter" /\ pc = "done"

\* The item passes every filter the dict configures, each by the test of
\* its stage.
PassesAll(item, filters) ==
    /\ (Has(filters, "date_from") \/ Has(filters, "date_to")) =>
          IsWithinDateRange(item.created_at,
                            ParseDate(GetDate(filters, "date_from")),
                            ParseDate(GetDate(filters, "date_to")))
    /\ (Has(filters, "min_engagement") /\ filters.min_engagement # <<>>) =>
          GetTotalEngagement(item) >= filters.min_engagement[1]
    /\ Has(filters, "keywords") => ContainsKeywords(item, filters.keywords)
    /\ Has(filters, "exclude_keywords") =>
          ~ContainsKeywords(item, filters.exclude_keywords)
    /\ Has(filters, "content_type") => item.type = filters.content_type

Passing == SelectSeq(args.data, LAMBDA item : PassesAll(item, args.filters))

\* C14: apply_filters applies the date-range, engagement, keyword, exclusion
\* and content-type filters and the limit last: the result is the first
\* `limit` items, in input order, of the items that pass every configured
\* filter, so it has at most `limit` items and at least min(limit, number
\* of passing items).
C14_LimitAppliedLast ==
    Filtered =>
        /\ ret = FilterLimit(Passing, args.filters)
        /\ Has(args.filters, "limit") =>
              /\ Len(ret) <= args.filters.limit
              /\ Len(ret) >= Min(args.filters.limit, Len(Passing))

\* C14 witness: with all six keys configured and a limit of 1, the first of
\* two items fails a filter and the result is the second item alone.
C14_Witness ==
    /\ Filtered
    /\ DOMAIN args.filters = FilterKeys
    /\ args.filters.limit = 1
    /\ Len(args.data) = 2
    /\ ~PassesAll(args.data[1], args.filters)
    /\ ret = <<args.data[2]>>

\* Some keyword of K occurs, case-insensitively, in the item's title, text
\* or author.
SomeKeywordOccurs(item, K) ==
    \E k \in 1..Len(K) :
        \E field \in {item.title, item.content, item.author} :
            IsSubstring(StrLower(K[k]), StrLower(field))

\* C15 (as claimed): with {keywords: K} apply_filters returns the posts in
\* which some keyword of K occurs, with {exclude_keywords: K} exactly the
\* others, for every K.
C15_KeywordsAndComplement ==
    Filtered =>
        /\ DOMAIN args.filters = {"keywords"} =>
              ret = SelectSeq(args.data, LAMBDA item :
                        SomeKeywordOccurs(item, args.filters.keywords))
        /\ DOMAIN args.filters = {"exclude_keywords"} =>
              ret = SelectSeq(args.data, LAMBDA item :
                        ~SomeKeywordOccurs(item, args.filters.exclude_keywords))

\* C16 (as claimed): exclude_keywords removes an item only if the item
\* contains a listed keyword: every item without one is in the result, and
\* an empty list removes nothing.
C16_ExcludeRemovesOnlyMatches ==
    (Filtered /\ DOMAIN args.filters = {"exclude_keywords"}) =>
        /\ \A i \in 1..Len(args.data) :
              SomeKeywordOccurs(args.data[i], args.filters.exclude_keywords)
              \/ \E j \in 1..Len(ret) : ret[j] = args.data[i]
        /\ args.filters.exclude_keywords = <<>> => ret = args.data

\* The date input is one that sets a bound of the range.
SetsBound(filters, key) ==
    Has(filters, key) /\ filters[key].form \in {"iso", "isoZ"}

\* C17 (as claimed): with date_from and/or date_to set, every returned item
\* whose created_at is an ISO timestamp, with or without a UTC offset or a
\* trailing Z, lies within the range; only items without a parseable
\* created_at pass regardless of it.
C17_ReturnedDatesInRange ==
    Filtered =>
        \A j \in 1..Len(ret) :
            ret[j].created_at.form \in {"iso", "isoZ", "offset"} =>
                /\ SetsBound(args.filters, "date_from") =>
                      ret[j].created_at.t >= args.filters.date_from.t
                /\ SetsBound(args.filters, "date_to") =>
                      ret[j].created_at.t <= args.filters.date_to.t

\* The sum of the engagement counts of the item: likes, score, comments and
\* shares, as far as the item has them.
CountTotal(item) ==
    SumValues(Restrict(item.engagement,
                       DOMAIN item.engagement
                       \cap {"likes", "score", "comments", "shares"}))

\* C18 (as claimed): with min_engagement = m the result is, in input order,
\* exactly the items whose engagement counts sum to at least m; an item with
\* no counts has the total 0.
C18_EngagementThreshold ==
    (Filtered /\ DOMAIN args.filters = {"min_engagement"}
              /\ args.filters.min_engagement # <<>>) =>
        ret = SelectSeq(args.data, LAMBDA item :
                  CountTotal(item) >= args.filters.min_engagement[1])

(***************************************************************************)
(* Properties of the limit option and of the Reddit normalizer             *)
(***************************************************************************)
\* C19 (as claimed): for a Reddit request with options.limit = L no source
\* contributes more than L post records to the results.
C19_LimitBoundsPostsPerSource ==
    platform \in {"reddit", "index"} =>
        \A i \in 1..Len(sources) : Len(PostsOf(i)) <= options.limit

Normalized == platform \in {"json_api", "advanced"} /\ pc = "done"

\* C20: from a hot-listing payload of 10 posts the normalizer makes exactly
\* 10 records, the i-th of the i-th post, each with platform 'reddit' and
\* with the ISO string of that post's created_utc as created_at.
C20_TenPostsNormalized ==
    (Normalized /\ Len(args.posts) = 10) =>
        /\ Len(ret) = 10
        /\ \A i \in 1..Len(ret) :
              /\ ret[i].platform = "reddit"
              /\ ret[i].title = args.posts[i].title
              /\ ret[i].created_at =
                    [form |-> "iso", t |-> args.posts[i].created_utc]

\* C20 witness: strategy 3 made records of a payload of 10 posts whose
\* first two posts differ in created_utc.
C20_Witness ==
    /\ platform = "json_api"
    /\ pc = "done"
    /\ Len(args.posts) = 10
    /\ args.posts[1].created_utc # args.posts[2].created_utc
    /\ Len(ret) = 10

(***************************************************************************)
(* Order of the flattened list                                             *)
(***************************************************************************)
\* The positions before j that hold an entry of depth d
EarlierAt(j, d) == {i \in 1..(j - 1) : ret[i].depth = d}

\* The greatest element of a non-empty set of numbers
Greatest(S) == CHOOSE m \in S : \A n \in S : n <= m

\* C25: the list _parse_comments_recursive returns is in pre-order of the
\* reply tree: its first entry has depth 0, the depth of an entry exceeds
\* the depth of the entry before it by at most 1, and an entry of depth
\* d > 0 comes after the entry of its parent comment, which has depth d - 1
\* and is the nearest entry of depth d - 1 before it.
C25_PreOrder ==
    Flattened =>
        /\ ret # <<>> => ret[1].depth = 0
        /\ \A j \in 2..Len(ret) : ret[j].depth <= ret[j - 1].depth + 1
        /\ \A j \in 1..Len(ret) :
              ret[j].depth > 0 =>
                  /\ EarlierAt(j, ret[j].depth - 1) # {}
                  /\ LET parent == ret[Greatest(EarlierAt(j, ret[j].depth - 1))]
                     IN /\ parent.type = "comment"
                        /\ parent.id = ret[j].parent_id

\* C25 witness: the call returned a list in which an entry of depth 0
\* comes after an entry of depth 1, and a later entry has depth 1.
C25_Witness ==
    /\ Flattened
    /\ \E i, j, k \in 1..Len(ret) :
          /\ i < j /\ j < k
          /\ ret[i].depth = 1
          /\ ret[j].depth = 0
          /\ ret[k].depth = 1

(***************************************************************************)
(* What apply_filters leaves alone                                         *)
(***************************************************************************)
\* s is t with some of its elements left out: the elements of s are
\* elements of t at increasing positions.
IsSubsequence(s, t) ==
    \E f \in [1..Len(s) -> 1..Len(t)] :
        /\ \A i \in 1..Len(s) : t[f[i]] = s[i]
        /\ \A i, j \in 1..Len(s) : i < j => f[i] < f[j]

FilterResultKept ==
    Filtered =>
        /\ IsSubsequence(ret, args.data)
        /\ DOMAIN args.filters = {} => ret = args.data

\* C26: apply_filters never adds, duplicates, reorders or modifies items:
\* for every filter dict the result is a subsequence of the input list in
\* the original order, the call leaves the input list as it was, and with
\* an empty filter dict the result is the input.
C26_FiltersOnlyRemove ==
    /\ []FilterResultKept
    /\ [][platform = "filter" => args'.data = args.data]_vars

\* C26 witness: the call returned the second of two different items alone.
C26_Witness ==
    /\ Filtered
    /\ Len(args.data) = 2
    /\ args.data[1] # args.data[2]
    /\ ret = <<args.data[2]>>

(***************************************************************************)
(* One record per source                                                   *)
(***************************************************************************)
\* C27: scrape_instagram and scrape_facebook of api/scrape.py return exactly
\* one record per source, in source order: after i sources the list has i
\* records, the j-th of which is the data record or the error record of the
\* j-th source, so the returned list is as long as the source list.
C27_OneRecordPerSource ==
    platform \in {"instagram", "facebook"} =>
        /\ Len(results) = idx - 1
        /\ pc = "done" => Len(results) = Len(sources)
        /\ \A j \in 1..Len(results) :
              /\ results[j].src = j
              /\ results[j].kind \in {"profile", "page", "error"}

\* C27 witness: scrape_facebook returned, for two sources, the error
\* record of the first, whose request raised, and the page record of the
\* second.
C27_Witness ==
    /\ platform = "facebook"
    /\ pc = "done"
    /\ Len(sources) = 2
    /\ Len(results) = 2
    /\ results[1] = Rec(1, "error", "exception", NoMethods)
    /\ results[2].kind = "page"

(***************************************************************************)
(* The dict scrape_page returns                                            *)
(***************************************************************************)
\* C28: every result of scrape_page has a status among success,
\* auth_required and failed; the status is success exactly when the last
\* response obtained is a 200 that is no login/checkpoint redirect; the
\* result has an 'error' key exactly when the status is not success, and
\* 'posts' and 'page_info' exactly when it is.
C28_PageResultShape ==
    (platform = "fbpage" /\ pc = "done") =>
        /\ pageResult.status \in {"success", "auth_required", "failed"}
        /\ pageResult.status = "success" <=>
              (response.got /\ response.ok200 /\ ~response.redirected)
        /\ pageResult.status = "success" <=> log[Len(log)].ok
        /\ pageResult.hasError <=> pageResult.status # "success"
        /\ pageResult.hasData <=> pageResult.status = "success"

\* C28 witness: scrape_page returned auth_required after all three
\* strategies were redirected to the login page.
C28_Witness ==
    /\ platform = "fbpage"
    /\ pc = "done"
    /\ Len(log) = 3
    /\ pageResult.status = "auth_required"
    /\ pageResult.hasError

(***************************************************************************)
(* Twitter timeline strategies: what counts as a success.                  *)
(***************************************************************************)
TimelineTag(strat) ==
    CASE strat = "enhanced" -> "syndication_enhanced"
      [] strat = "xcancel" -> "xcancel_complete_timeline"
      [] OTHER -> "syndication_api_popular"

\* The lists a helper scraper can hand back to scrape_twitter.
ReturnedBy(strat) ==
    CASE strat = "enhanced" ->
            {EnhancedTimeline(r, EnhancedLimit) : r \in ListingResponses}
      [] strat = "xcancel" ->
            {XcancelTimeline(r, XcancelLimit) : r \in ListingResponses}
      [] OTHER -> {BasicTimeline(r, BasicLimit) : r \in ListingResponses}

CleanList(tweets) ==
    /\ Len(tweets) > 0
    /\ \A i \in 1..Len(tweets) : tweets[i] = "tweet"

TweetRecords(tweets, strat) ==
    [i \in 1..Len(tweets) |-> Rec(idx, "tweet", TimelineTag(strat), NoMethods)]

StrategySucceededStep(strat) ==
    log' = Append(log, Attempt(idx, strat, TRUE))
    => /\ success'
       /\ \E tweets \in ReturnedBy(strat) :
            /\ CleanList(tweets)
            /\ results' = results \o TweetRecords(tweets, strat)

StrategyFailedStep(strat) ==
    log' = Append(log, Attempt(idx, strat, FALSE))
    => /\ ~success'
       /\ results' = results

TimelineStep ==
    platform = "twitter" =>
        \A k \in 1..3 : /\ StrategySucceededStep(TwitterStrategies[k])
                        /\ StrategyFailedStep(TwitterStrategies[k])

\* C23: a timeline strategy of scrape_twitter is recorded as a success only
\* when the list it returned is non-empty and holds no error element, in
\* which case one record per element is appended; a strategy that failed
\* appends nothing.  This holds for the enhanced, the xcancel and the basic
\* strategy alike.
C23_TimelineSuccessIsClean == [][TimelineStep]_vars

\* A username for which the first two strategies failed and the third
\* succeeded: its only records are those of the basic strategy.
C23_Witness ==
    /\ platform = "twitter"
    /\ pc = "done"
    /\ Len(sources) = 1
    /\ log = <<Attempt(1, "enhanced", FALSE), Attempt(1, "xcancel", FALSE),
               Attempt(1, "basic", TRUE)>>
    /\ Len(results) = 2
    /\ \A j \in 1..Len(results) : results[j].tag = "syndication_api_popular"

\* C24: a 200 answer of the syndication endpoint whose page holds k matching
\* tweets makes EnhancedTwitterScraper.scrape_user_timeline return
\* min(k, limit) tweet elements and no error element, so that the first
\* strategy of scrape_twitter succeeds on it.
C24_EnhancedReturnsTweets ==
    platform = "twitter" =>
        \A resp \in ListingResponses :
            resp.kind = "ok" =>
                LET tweets == EnhancedTimeline(resp, EnhancedLimit)
                IN /\ Len(tweets) = Min(Len(resp.items), EnhancedLimit)
                   /\ \A i \in 1..Len(tweets) : tweets[i] = "tweet"
                   /\ Len(resp.items) > 0 => TimelineSucceeded(tweets)

(***************************************************************************)
(* Properties of the comment request of the Arctic Shift strategy          *)
(***************************************************************************)
NewRecords == SubSeq(results', Len(results) + 1, Len(results'))
NewRequests == SubSeq(log', Len(log) + 1, Len(log') - 1)

\* The step of strategy 1 ends as the strategy does on some listing when no
\* comment is asked for, and every post whose comments were asked for is
\* among the records appended.
ArcticAsWithoutComments(resp) ==
    LET out == RedditStrategy(resp, idx, RedditTags[1])
    IN /\ success' = out.ok
       /\ log'[Len(log')] = Attempt(idx, RedditStrategies[1], out.ok)
       /\ Len(NewRecords) = Len(out.recs)
       /\ \A j \in 1..Len(NewRecords) :
            /\ NewRecords[j].src = idx
            /\ NewRecords[j].kind = "post"
            /\ NewRecords[j].tag = RedditTags[1]
       /\ Len(NewRequests) <= Len(NewRecords)
       /\ \A j \in 1..Len(NewRequests) : NewRequests[j].strat = "comments"

CommentsStep ==
    (platform = "reddit" /\ options.fetch_comments /\ pc = "arctic" /\ pc' = "rss")
    => \E resp \in ListingResponses : ArcticAsWithoutComments(resp)

\* A source whose first strategy succeeded saw no other strategy and has no
\* error record, however its comment requests ended.
ArcticSuccessIsFinal ==
    (platform = "reddit" /\ options.fetch_comments) =>
        \A i \in 1..Len(sources) :
            (\E k \in 1..Len(log) : log[k] = Attempt(i, "arctic", TRUE))
            => /\ \A k \in 1..Len(log) :
                    log[k].src = i => log[k].strat \in {"comments", "arctic"}
               /\ \A j \in 1..Len(results) :
                    results[j].src = i => results[j].kind = "post"

\* C29: with fetch_comments on, a comment request of the Arctic Shift
\* strategy that raises or is answered by a non-200 neither fails the
\* strategy nor drops the post: the post record is appended all the same,
\* the strategy succeeds as it would without the request, and no later
\* strategy runs for that source.
C29_CommentFailureKeepsPost ==
    /\ []ArcticSuccessIsFinal
    /\ [][CommentsStep]_vars

\* One source, two posts: the first comment request raised, the second was
\* answered by a non-200; both posts are in the output and the strategy
\* succeeded.
C29_Witness ==
    /\ platform = "reddit"
    /\ pc = "done"
    /\ Len(sources) = 1
    /\ log = <<Attempt(1, "comments", FALSE), Attempt(1, "comments", FALSE),
               Attempt(1, "arctic", TRUE)>>
    /\ Len(results) = 2
    /\ results[1].comment_fetch_error
    /\ ~results[2].comment_fetch_error
    /\ results[2].comments = "count"

(***************************************************************************)
(* Properties of the recursion of the comment flattener                    *)
(***************************************************************************)
Running == platform = "recursion" /\ pc = "run"

\* The activations on the stack are those of depth 0, 1, 2, ... and there
\* are at most max_depth + 1 of them.
NestingBounded ==
    Running =>
        /\ Len(ret.stack) <= args.max_depth + 1
        /\ \A k \in 1..Len(ret.stack) : ret.stack[k].depth = k - 1

\* The call has returned, with the list the function computes.
Returned ==
    platform = "recursion" =>
        /\ pc = "done"
        /\ ret.stack = NoStack
        /\ ret.value = ParseCommentsRecursive(args.comment_list, 0,
                                              args.max_depth)

\* C30: _parse_comments_recursive returns on every finite reply tree, and
\* while it runs no more than max_depth + 1 of its activations are nested.
C30_RecursionBoundedAndEnds ==
    /\ []NestingBounded
    /\ <>Returned

\* max_depth + 1 activations are nested and the innermost one is at a
\* comment that has replies, which it will not descend into.
C30_Witness ==
    /\ Running
    /\ args.max_depth >= 1
    /\ Len(ret.stack) = args.max_depth + 1
    /\ LET top == ret.stack[Len(ret.stack)]
       IN /\ top.pos <= Len(top.list)
          /\ top.list[top.pos].kind = "t1"
          /\ top.list[top.pos].replies # <<>>

(***************************************************************************)
(* Properties of flatten_dict and export_results                           *)
(***************************************************************************)
RECURSIVE LeafCount(_)
\* The number of values of the nested dict that are not dicts.
LeafCount(d) ==
    IF d = <<>> THEN 0
    ELSE (IF Head(d).value.kind = "dict" THEN LeafCount(Head(d).value.entries)
          ELSE 1) + LeafCount(Tail(d))

RECURSIVE LeafKeys(_, _)
\* The keys 'k1_k2_..._kn' of the leaves, `path` being 'k1_..._' so far.
LeafKeys(d, path) ==
    UNION {IF d[i].value.kind = "dict"
           THEN LeafKeys(d[i].value.entries, (path \o d[i].key) \o <<"_">>)
           ELSE {path \o d[i].key} : i \in 1..Len(d)}

FlattenedDict == platform = "flatten_dict" /\ pc = "done"

\* C22: flatten_dict gives every leaf reached through the keys k1, ..., kn
\* the key 'k1_k2_..._kn', returns no dict as a value, and loses no leaf: the
\* flattened record has as many keys as the input has leaves that are not
\* dicts.
C22_FlattenKeepsEveryLeaf ==
    FlattenedDict =>
        /\ {ret[i].key : i \in 1..Len(ret)} = LeafKeys(args.d, <<>>)
        /\ \A i \in 1..Len(ret) : ret[i].value.kind # "dict"
        /\ Len(ret) = LeafCount(args.d)

\* The same without the count, and the count for the records in which no
\* two leaves are given the same key.
FlattenLosesOnlyCollidingLeaves ==
    FlattenedDict =>
        /\ {ret[i].key : i \in 1..Len(ret)} = LeafKeys(args.d, <<>>)
        /\ \A i \in 1..Len(ret) : ret[i].value.kind # "dict"
        /\ Cardinality(LeafKeys(args.d, <<>>)) = LeafCount(args.d)
           => Len(ret) = LeafCount(args.d)

Exported == platform = "export" /\ args.format = "json"

\* Every call wrote its file, and the files hold the same tokens.
SameContents ==
    Exported =>
        \A i, j \in 1..Len(ret) :
            /\ ret[i].written
            /\ ret[i].contents = ret[j].contents

ResultsUntouched == platform = "export" => args'.results = args.results

\* C21: two calls export_results(results, 'json') on the same list write
\* the same contents, whatever the seconds at which they are made, which
\* only the file names show; the list is left as it was.
C21_JsonExportIdempotent ==
    /\ []SameContents
    /\ [][ResultsUntouched]_vars

\* Two exports of a list that holds a record with a nested dict, made in
\* different seconds: two file names.
C21_Witness ==
    /\ Exported
    /\ pc = "done"
    /\ Len(ret) = 2
    /\ ret[1].name # ret[2].name
    /\ Len(args.results) = 1
    /\ \E i \in 1..Len(args.results[1]) :
          /\ args.results[1][i].value.kind = "dict"
          /\ args.results[1][i].value.entries # <<>>

====
